---- MODULE Spec2Model ----
(***************************************************************************)
(* A model of the qd-ai-render front end: the virtual tour's linear        *)
(* undo/redo history, the N-way generation fan-out of the Gemini service,  *)
(* and the history lists of the render tabs and utility tasks together     *)
(* with their persistence to localStorage (quota pruning included).        *)
(*                                                                         *)
(* Each part has its own specification over the same variables: SpecTour,  *)
(* SpecFan, SpecStore (recording, clearing and persisting), SpecView       *)
(* (restoring and upscaling), SpecSave (safeSaveToLocalStorage called on   *)
(* its own), SpecError (the render tabs' error handling), SpecMask (the    *)
(* mask canvas and the image editor around it), SpecStroke (the editor's   *)
(* stroke undo stack), SpecAnalyze (the utility runner's auto-describe     *)
(* effects), SpecFacade (the facade controls and their prompt), SpecKey    *)
(* (the API credential), SpecUpload (the upload entry points),             *)
(* SpecMaterial (the material analysis' response) and SpecBusy (the busy   *)
(* flags, with every issued call settling).                                *)
(***************************************************************************)
EXTENDS Integers, Sequences, FiniteSets, TLC

\* ------------------------------------------------------------------ bounds
MaxData == 2        \* distinct image payloads
MaxHist == 3        \* a camera action is started only below this length
MaxCount == 4       \* largest fan-out count N requested
MaxParts == 2       \* longest list of parts in a model response
MaxItems == 2       \* history items created in one run (Date.now() ids)
MaxFree == 2        \* largest free space of localStorage, in items
MaxFault == 1       \* a non-quota storage error hits at most this attempt
MaxPending == 1     \* utility generations in flight, unmounted ones included
MaxViewItems == 1   \* history items created where restoring and upscaling are followed
MaxPixels == 4      \* pixels of the drawing canvas
MaxStrokes == 2     \* snapshots on the editor's undo stack
MaxMaterials == 2   \* material analyses in flight, unmounted runners included
MaxOptions == 3     \* longest option array in a model response
MaxKeys == 3        \* distinct credentials a user can enter
MaxUploads == 3     \* images uploaded to the utility runners
MaxAnalyses == 2    \* describe requests in flight, unmounted runners included
MaxEdits == 2       \* editor generations in flight, unmounted editors included
MaxAlpha == 2       \* full opacity and full channel intensity (255 in the browser)
MaxLen == 5         \* longest list handed to safeSaveToLocalStorage on its own

\* ------------------------------------------------------------- image values
NULL == [null |-> TRUE]

\* A MIME type "type/subtype".
Mime(t, s) == [type |-> t, subtype |-> s]
PNG == Mime("image", "png")
SVG == Mime("image", "svg+xml")
TXT == Mime("text", "plain")
FileTypes == {PNG, SVG, TXT}
ImageMimes == {PNG, SVG}
Data == 1..MaxData

\* String.startsWith('image/') on a MIME type.
StartsWithImage(m) == m.type = "image"

\* The subtype matches [a-z]+ (and is followed directly by ";base64,").
LowerAlpha == {"png", "jpeg", "webp", "gif"}

\* A data URL `data:${mimeType};base64,${base64}`.
DataUrl(m, d) == [mime |-> m, data |-> d]
SourceImage(m, d) == [mimeType |-> m, base64 |-> d]
DataUrls == {DataUrl(m, d) : m \in ImageMimes, d \in Data}

\* dataUrl.match(/^data:(image\/[a-z]+);base64,(.+)$/)
dataUrlToSourceImage(url) ==
    IF url.mime.type = "image" /\ url.mime.subtype \in LowerAlpha
    THEN SourceImage(url.mime, url.data)
    ELSE NULL

VARIABLES
    \* ---- virtual tour (VirtualTourTab)
    tourSourceImage,    \* sourceImage: SourceImage | null
    history,            \* history: string[]
    historyIndex,       \* historyIndex
    tourIsLoading,      \* isLoading
    tourPending,        \* the closure of the handleAction call in flight
    tourAlerts,         \* the last alert shown ("" if none since the last step)
    tourLast,           \* the last handler that ran, with the state it ran on
    \* ---- generation fan-out (geminiService generateImages / editImage)
    fanCall,            \* the call in progress: function, count, reference image
    fanSlots,           \* one promise per request, in issue order
    fanRequests,        \* the parts sent by each request, in issue order
    fanResult,          \* the promise returned to the caller
    \* ---- history lists and their persistence (App, UtilityRunner)
    mounted,            \* the page is loaded and App's mount effects have run
    localStorage,       \* key -> stored history list, or absent
    nextId,             \* the next Date.now() item id
    appHistory,         \* App: exteriorHistory, interiorHistory, editHistory by key
    generatedImages,    \* App: the displayed result array
    isLoading,          \* App: isLoading
    appPending,         \* App: the handleGeneration call in flight
    appUpscale,         \* App: the handleUpscale call in flight (upscalingIndex)
    isApiKeyModalOpen,  \* App: isApiKeyModalOpen
    selectedTask,       \* UtilitiesTab: the task of the mounted UtilityRunner
    utilityHistory,     \* UtilityRunner: utilityHistory
    resultImages,       \* UtilityRunner: the displayed result array
    utilIsLoading,      \* UtilityRunner: isLoading
    utilPending,        \* the handleGenerate calls in flight, with their closures
    utilUpscale,        \* UtilityRunner: the handleUpscale call in flight
    storeLast,          \* the last handler that ran and its last storage write
    \* ---- safeSaveToLocalStorage called on its own
    saveCall,           \* the arguments and environment of the call
    saveDone,           \* the outcome of the call, once made
    \* ---- mask painting (ImageEditor, UtilityRunner change_material)
    strokeLayer,        \* the drawing canvas: pixel -> [c, a]
    maskImage,          \* the mask canvas last produced, <<>> before the first
    maskLast,           \* the last canvas operation
    \* ---- image editor (ImageEditor under App's edit tab)
    editorOpen,         \* App: activeTab = "edit", the editor is mounted
    editorIsLoading,    \* ImageEditor: isLoading
    editorPending,      \* the handleGenerate calls in flight: of the mounted
                        \* editor (live) and of editors since unmounted
    resultImage,        \* ImageEditor: resultImage
    editorLast,         \* the last editor handler and what it reported
    \* ---- prompt analysis (UtilityRunner's auto-describe effects)
    sourceImage1,       \* UtilityRunner: sourceImage1, an upload or 0 for null
    sourceImage2,       \* UtilityRunner: sourceImage2, an upload or 0 for null
    nextUpload,         \* the next upload, each one a fresh object
    prompt,             \* UtilityRunner: prompt
    isAnalyzing,        \* UtilityRunner: isAnalyzing
    analysisPending,    \* the describe requests in flight: of the mounted
                        \* runner (live) and of runners since unmounted
    described,          \* upload -> the describe requests issued with it
    analysisLast,       \* the last analysis step and the state it ran in
    \* ---- facade from land (UtilityRunner's facade controls)
    floors,             \* UtilityRunner: floors, '' until chosen
    selectedHouseType,  \* UtilityRunner: selectedHouseType
    selectedFacadeStyle, \* UtilityRunner: selectedFacadeStyle
    selectedColorPalette, \* UtilityRunner: selectedColorPalette, '' for null
    materialOptions,    \* UtilityRunner: materialOptions
    selectedMaterial,   \* UtilityRunner: selectedMaterial
    isAnalyzingMaterialsSuggestions,
    materialsPending,   \* the handleAnalyzeMaterials calls in flight
    \* ---- API credential (getApiKey / getGenAI, ApiKeyModal)
    build,              \* the service module bundled and process.env.API_KEY
    storedKey,          \* localStorage 'gemini_api_key', 0 when absent
    keyLast,            \* the last credential step and what it used
    \* ---- upload entry points (ImageUpload, ImageEditor, VirtualTourTab)
    uploadLast,         \* the last file given to an entry point, and its fate
    \* ---- material analysis (analyzeMaterialsForFacade)
    materialLast,       \* the last response text and the options made of it
    \* ---- utility history, what the user cleared
    cleared,            \* the ids of the items removed by a clear
    \* ---- ImageEditor, the stroke undo stack
    isDrawing,          \* a stroke is in progress
    drawingHistory      \* the snapshots of the stroke layer, oldest first

tourVars == <<tourSourceImage, history, historyIndex, tourIsLoading,
              tourPending, tourAlerts, tourLast>>

fanVars == <<fanCall, fanSlots, fanRequests, fanResult>>

appVars == <<appHistory, generatedImages, isLoading, appPending,
             appUpscale, isApiKeyModalOpen>>
utilVars == <<selectedTask, utilityHistory, resultImages,
              utilIsLoading, utilPending, utilUpscale>>
storeVars == <<mounted, localStorage, nextId, appVars, utilVars, storeLast>>

saveVars == <<saveCall, saveDone>>

editorVars == <<editorOpen, editorIsLoading, editorPending, resultImage,
                editorLast>>
maskVars == <<strokeLayer, maskImage, maskLast, editorVars>>

facadeVars == <<floors, selectedHouseType, selectedFacadeStyle,
                selectedColorPalette, materialOptions, selectedMaterial,
                isAnalyzingMaterialsSuggestions, materialsPending>>
analyzeVars == <<sourceImage1, sourceImage2, nextUpload, prompt, isAnalyzing,
                 analysisPending, described, analysisLast, facadeVars>>
keyVars == <<build, storedKey, keyLast>>
\* The parts that no handler of the tabs, the runner or the editor touches.
strokeVars == <<isDrawing, drawingHistory>>
auxVars == <<keyVars, uploadLast, materialLast, cleared, strokeVars>>
vars == <<tourVars, fanVars, storeVars, saveVars, maskVars, analyzeVars,
          auxVars>>
notTour == <<fanVars, storeVars, saveVars, maskVars, analyzeVars, auxVars>>
notFan == <<tourVars, storeVars, saveVars, maskVars, analyzeVars, auxVars>>
notStore == <<tourVars, fanVars, saveVars, maskVars, analyzeVars, auxVars>>
notSave == <<tourVars, fanVars, mounted, nextId, appVars, utilVars, storeLast,
             maskVars, analyzeVars, auxVars>>
notMask == <<tourVars, fanVars, storeVars, saveVars, analyzeVars, auxVars>>

\* ------------------------------------------------------------ virtual tour
\* useMemo currentImage
currentImage ==
    IF historyIndex >= 0 /\ historyIndex < Len(history)
    THEN history[historyIndex + 1]
    ELSE NULL

TourLast(op) == [op |-> op, history |-> history, historyIndex |-> historyIndex]

TourInit ==
    /\ tourSourceImage = NULL
    /\ history = <<>>
    /\ historyIndex = -1
    /\ tourIsLoading = FALSE
    /\ tourPending = NULL
    /\ tourAlerts = ""
    /\ tourLast = [op |-> "init", history |-> <<>>, historyIndex |-> -1]

\* The file input's onChange and the reader's onload: only image files with
\* a non-empty payload reach handleImageUpload.  The input is rendered only
\* while no source image is set.
handleImageUpload(fileType, base64) ==
    /\ tourSourceImage = NULL
    /\ StartsWithImage(fileType)
    /\ tourSourceImage' = SourceImage(fileType, base64)
    /\ history' = <<DataUrl(fileType, base64)>>
    /\ historyIndex' = 0
    /\ tourLast' = TourLast("upload")
    /\ tourAlerts' = ""
    /\ UNCHANGED <<tourIsLoading, tourPending>>
    /\ UNCHANGED notTour

\* history.slice(0, historyIndex + 1) followed by the new image
TruncateAndAppendMutant(h, i, img) == Append(h, img)
TruncateAndAppend(h, i, img) == Append(SubSeq(h, 1, i + 1), img)

\* handleAction up to the await: the guards, then setIsLoading(true).
\* The nav buttons are rendered once a source image is set and are disabled
\* while isLoading.
handleActionStart ==
    /\ tourSourceImage # NULL
    /\ ~tourIsLoading
    /\ tourPending = NULL
    /\ Len(history) < MaxHist \/ historyIndex < Len(history) - 1
    /\ IF currentImage = NULL
       THEN /\ tourAlerts' = "upload-first"
            /\ tourLast' = TourLast("action_rejected")
            /\ UNCHANGED <<tourIsLoading, tourPending>>
       ELSE IF dataUrlToSourceImage(currentImage) = NULL
       THEN /\ tourAlerts' = "invalid-format"
            /\ tourLast' = TourLast("action_rejected")
            /\ UNCHANGED <<tourIsLoading, tourPending>>
       ELSE /\ tourIsLoading' = TRUE
            /\ tourPending' = [history |-> history, historyIndex |-> historyIndex]
            /\ tourAlerts' = ""
            /\ tourLast' = TourLast("action_start")
    /\ UNCHANGED <<tourSourceImage, history, historyIndex>>
    /\ UNCHANGED notTour

\* handleAction after the await.  r is the settlement of generateImages:
\* rejected, or resolved with a list of images.
handleActionSettleMutant(r) ==
    /\ tourPending # NULL
    /\ IF ~r.rejected /\ Len(r.images) > 0
       THEN /\ history' = TruncateAndAppend(tourPending.history,
                                            tourPending.historyIndex, r.images[1])
            /\ historyIndex' = Len(history') - 1
            /\ tourAlerts' = ""
            /\ tourLast' = TourLast("action_ok")
       ELSE /\ tourAlerts' = "action-failed"
            /\ tourLast' = TourLast("action_failed")
            /\ history' = SubSeq(tourPending.history, 1,
                                 tourPending.historyIndex + 1)
            /\ UNCHANGED historyIndex
    /\ tourIsLoading' = FALSE
    /\ tourPending' = NULL
    /\ UNCHANGED tourSourceImage
    /\ UNCHANGED notTour
handleActionSettle(r) ==
    /\ tourPending # NULL
    /\ IF ~r.rejected /\ Len(r.images) > 0
       THEN /\ history' = TruncateAndAppend(tourPending.history,
                                            tourPending.historyIndex, r.images[1])
            /\ historyIndex' = Len(history') - 1
            /\ tourAlerts' = ""
            /\ tourLast' = TourLast("action_ok")
       ELSE /\ tourAlerts' = "action-failed"
            /\ tourLast' = TourLast("action_failed")
            /\ UNCHANGED <<history, historyIndex>>
    /\ tourIsLoading' = FALSE
    /\ tourPending' = NULL
    /\ UNCHANGED tourSourceImage
    /\ UNCHANGED notTour

\* handleUndo; its button is disabled while isLoading.
handleUndoMutant ==
    /\ tourSourceImage # NULL /\ ~tourIsLoading
    /\ historyIndex' = historyIndex - 1
    /\ history' = history
    /\ tourLast' = TourLast("undo")
    /\ tourAlerts' = ""
    /\ UNCHANGED <<tourSourceImage, tourIsLoading, tourPending>>
    /\ UNCHANGED notTour
handleUndo ==
    /\ tourSourceImage # NULL /\ ~tourIsLoading
    /\ historyIndex' = IF historyIndex > 0 THEN historyIndex - 1 ELSE historyIndex
    /\ history' = history
    /\ tourLast' = TourLast("undo")
    /\ tourAlerts' = ""
    /\ UNCHANGED <<tourSourceImage, tourIsLoading, tourPending>>
    /\ UNCHANGED notTour

\* handleRedo; its button is disabled while isLoading.
handleRedoMutant ==
    /\ tourSourceImage # NULL /\ ~tourIsLoading
    /\ historyIndex' = historyIndex + 1
    /\ history' = history
    /\ tourLast' = TourLast("redo")
    /\ tourAlerts' = ""
    /\ UNCHANGED <<tourSourceImage, tourIsLoading, tourPending>>
    /\ UNCHANGED notTour
handleRedo ==
    /\ tourSourceImage # NULL /\ ~tourIsLoading
    /\ historyIndex' = IF historyIndex < Len(history) - 1
                       THEN historyIndex + 1 ELSE historyIndex
    /\ history' = history
    /\ tourLast' = TourLast("redo")
    /\ tourAlerts' = ""
    /\ UNCHANGED <<tourSourceImage, tourIsLoading, tourPending>>
    /\ UNCHANGED notTour

TourUpload == \E t \in FileTypes, d \in Data : handleImageUpload(t, d)
Resolved(images) == [rejected |-> FALSE, images |-> images]
\* A rejection; its message is none of those handleHandleError looks for.
Rejected == [rejected |-> TRUE, images |-> <<>>,
             message |-> [present |-> TRUE, marks |-> {}]]

TourActionOk == \E u \in DataUrls : handleActionSettle(Resolved(<<u>>))
TourActionEmpty == handleActionSettle(Resolved(<<>>))
TourActionError == handleActionSettle(Rejected)

TourNext ==
    \/ TourUpload
    \/ handleActionStart
    \/ TourActionOk
    \/ TourActionEmpty
    \/ TourActionError
    \/ handleUndo
    \/ handleRedo


\* ------------------------------------------------------- generation fan-out
UNDEF == Mime("undefined", "")      \* a missing mimeType, as interpolated
NoData == 0                         \* a missing data field

TextPart == [kind |-> "text", mimeType |-> UNDEF, data |-> NoData]
InlinePart(m, d) == [kind |-> "inline", mimeType |-> m, data |-> d]
Parts == {TextPart} \cup {InlinePart(PNG, d) : d \in Data}
            \cup {InlinePart(UNDEF, 1), InlinePart(PNG, NoData)}

SeqsUpTo(S, n) == UNION {[1..k -> S] : k \in 0..n}

\* A response either has candidates[0].content.parts or has not.
Responses ==
    {[hasParts |-> FALSE, parts |-> <<>>]}
        \cup {[hasParts |-> TRUE, parts |-> ps] : ps \in SeqsUpTo(Parts, MaxParts)}

RECURSIVE FirstInline(_, _)
FirstInline(parts, k) ==
    IF k > Len(parts) THEN NULL
    ELSE IF parts[k].kind = "inline"
         THEN DataUrl(parts[k].mimeType, parts[k].data)
         ELSE FirstInline(parts, k + 1)

\* extractBase64Image: the first part carrying inlineData, else null.
extractBase64Image(response) ==
    IF response.hasParts THEN FirstInline(response.parts, 1) ELSE NULL

Pending == [state |-> "pending", value |-> NULL]
Fulfilled(v) == [state |-> "fulfilled", value |-> v]
RejectedSlot == [state |-> "rejected", value |-> NULL]

FanInit ==
    /\ fanCall = [fn |-> "none", count |-> 0, reference |-> FALSE]
    /\ fanSlots = <<>>
    /\ fanRequests = <<>>
    /\ fanResult = [state |-> "idle", images |-> <<>>]

\* A request part: the inline data of one of the call's image arguments, or
\* a text built from the prompt by a directive.
InlineOf(argument) == [kind |-> "inline", of |-> argument, directive |-> ""]
TextOf(directive) == [kind |-> "text", of |-> "prompt", directive |-> directive]

\* The parts of one generateImages request.
generateImagesParts(referenceImage) ==
    LET parts == <<InlineOf("sourceImage")>>
        withRef == IF referenceImage THEN Append(parts, InlineOf("referenceImage"))
                   ELSE parts
    IN  Append(withRef, TextOf("prompt"))

\* const instruction = referenceImage ? `SYSTEM: EXACT MATERIAL REPLACEMENT
\* ...` : `Edit masked area: ...`
instructionMutant(referenceImage) == "edit_masked_area"
instruction(referenceImage) ==
    IF referenceImage THEN "material_replacement" ELSE "edit_masked_area"

\* The parts of one editImage request.
editImageParts(referenceImage) ==
    LET parts == <<InlineOf("sourceImage"), InlineOf("maskImage")>>
        withRef == IF referenceImage THEN Append(parts, InlineOf("referenceImage"))
                   ELSE parts
    IN  Append(withRef, TextOf(instruction(referenceImage)))

\* results.filter(result => result !== null)
filterNonNullMutant(results) == results
filterNonNull(results) == SelectSeq(results, LAMBDA r : r # NULL)

\* Promise.all over the per-request promises: rejected as soon as one of them
\* rejects, resolved with the values in index order once all are fulfilled.
PromiseAll(slots) ==
    IF \E i \in 1..Len(slots) : slots[i].state = "rejected"
    THEN [state |-> "rejected", values |-> <<>>]
    ELSE IF \A i \in 1..Len(slots) : slots[i].state = "fulfilled"
    THEN [state |-> "resolved",
          values |-> [i \in 1..Len(slots) |-> slots[i].value]]
    ELSE [state |-> "pending", values |-> <<>>]

\* The caller's continuation after `await Promise.all(...)`.
FanOutcome(slots) ==
    LET all == PromiseAll(slots)
    IN  IF all.state = "resolved"
        THEN [state |-> "resolved", images |-> filterNonNull(all.values)]
        ELSE [state |-> all.state, images |-> <<>>]

\* Array(count).fill(0).map(async () => ...): count requests are issued at
\* once; a new call is made only when the previous one has fully settled.
FanStart(fn, count, reference) ==
    /\ fanResult.state # "pending"
    /\ \A i \in 1..Len(fanSlots) : fanSlots[i].state # "pending"
    /\ fanCall' = [fn |-> fn, count |-> count, reference |-> reference]
    /\ fanSlots' = [i \in 1..count |-> Pending]
    /\ fanRequests' = [i \in 1..count |->
                          IF fn = "editImage" THEN editImageParts(reference)
                          ELSE generateImagesParts(reference)]
    /\ fanResult' = [state |-> "pending", images |-> <<>>]
    /\ UNCHANGED notFan

generateImages == \E n \in 1..MaxCount, ref \in BOOLEAN : FanStart("generateImages", n, ref)
editImage == \E n \in 1..MaxCount, ref \in BOOLEAN : FanStart("editImage", n, ref)

\* Request i settles; a promise that has settled keeps its state, and so does
\* the returned promise.
SettleSlot(i, slot) ==
    /\ i \in 1..Len(fanSlots)
    /\ fanSlots[i].state = "pending"
    /\ fanSlots' = [fanSlots EXCEPT ![i] = slot]
    /\ fanResult' = IF fanResult.state = "pending"
                    THEN FanOutcome(fanSlots')
                    ELSE fanResult
    /\ UNCHANGED <<fanCall, fanRequests>>
    /\ UNCHANGED notFan

\* generateContent resolves and the response is passed to extractBase64Image.
RequestResolves ==
    \E i \in 1..MaxCount, resp \in Responses :
        SettleSlot(i, Fulfilled(extractBase64Image(resp)))

\* generateContent throws (network failure, HTTP error, quota, ...).
RequestRejects == \E i \in 1..MaxCount : SettleSlot(i, RejectedSlot)

FanNext ==
    \/ generateImages
    \/ editImage
    \/ RequestResolves
    \/ RequestRejects

\* ----------------------------------------------- mask painting: the canvas
\* A pixel: one colour channel c (the three channels are composited alike)
\* and alpha a, both in 0..MaxAlpha, not premultiplied; a transparent pixel
\* is transparent black.
Black == 0
White == MaxAlpha
Pixels == 1..MaxPixels
Pixel(c, a) == [c |-> c, a |-> a]
Transparent == Pixel(0, 0)
Opaque(c) == Pixel(c, MaxAlpha)
\* strokeStyle rgba(236, 72, 153, 0.7): the channel is neither black nor white.
StrokeColor == 1

\* x / MaxAlpha rounded to the nearest level.
Scale(x) == (2 * x + MaxAlpha) \div (2 * MaxAlpha)

\* globalCompositeOperation 'source-over' of source pixel s on backdrop b.
SourceOver(s, b) ==
    LET a == s.a + Scale(b.a * (MaxAlpha - s.a))
    IN  IF a = 0 THEN Transparent
        ELSE Pixel((s.c * s.a * MaxAlpha + b.c * b.a * (MaxAlpha - s.a))
                       \div (a * MaxAlpha), a)

\* globalCompositeOperation 'source-in': the source where the backdrop is
\* opaque, nothing where it is transparent.
SourceIn(s, b) ==
    LET a == Scale(s.a * b.a)
    IN  IF a = 0 THEN Transparent ELSE Pixel(s.c, a)

\* document.createElement('canvas'): transparent black.
createCanvas == [p \in Pixels |-> Transparent]

\* ctx.fillRect(0, 0, width, height) with an opaque fillStyle.
fillRect(canvas, c, over) ==
    [p \in Pixels |-> IF over THEN SourceOver(Opaque(c), canvas[p])
                      ELSE SourceIn(Opaque(c), canvas[p])]

\* ctx.drawImage(layer, 0, 0) with source-over.
drawImage(canvas, layer) == [p \in Pixels |-> SourceOver(layer[p], canvas[p])]

\* ImageEditor.generateMaskImage; toDataURL('image/png') is lossless.
generateMaskImage(drawingCanvas) ==
    LET black == fillRect(createCanvas, Black, TRUE)
        drawn == drawImage(black, drawingCanvas)
    IN  fillRect(drawn, White, FALSE)

\* The same steps inlined in UtilityRunner.handleGenerate (change_material).
utilityMask(dc) ==
    LET black == fillRect(createCanvas, Black, TRUE)
        drawn == drawImage(black, dc)
    IN  fillRect(drawn, White, FALSE)

\* ------------------------------------------------------------ localStorage
Max(a, b) == IF a >= b THEN a ELSE b

\* The history lists of App (two of the four render tabs, and the editor).
RenderTypes == {"exterior", "interior"}
HistoryKey(renderType) ==
    IF renderType = "exterior" THEN <<"app", "exteriorRenderHistory">>
    ELSE <<"app", "interiorRenderHistory">>
EditKey == <<"app", "editHistory">>
AppKeys == {HistoryKey(t) : t \in RenderTypes} \cup {EditKey}

\* The utility tasks (two of the ten) and the key of each.
UtilTasks == {"sketch_to_render", "change_material"}
\* The tasks whose prompt is built in the runner itself.
LocalPromptTasks == {"virtual_staging", "facade_from_land"}
AllTasks == UtilTasks \cup LocalPromptTasks
UtilKey(task) == <<"utility_history", task>>
UtilKeys == {UtilKey(t) : t \in AllTasks}
Keys == AppKeys \cup UtilKeys

\* A history list whose items carry a list of images (RenderHistoryItem), as
\* opposed to a single image (EditHistoryItem).
MultiImage(key) == key # EditKey

Absent == [present |-> FALSE, list |-> <<>>]
Stored(list) == [present |-> TRUE, list |-> list]

\* localStorage.getItem(key) followed by `if (stored) ... JSON.parse(stored)`:
\* the serialised list is a non-empty string whenever the key is present.
getItem(ls, key) == ls[key]

\* The storage environment of one handler: the free space left by the other
\* keys and other writers, counted in items, and the attempt (0: none) at
\* which setItem fails for a reason other than the quota.
Envs == [free : -1..MaxFree, fault : 0..MaxFault]

Used(ls, key) == IF ls[key].present THEN Len(ls[key].list) ELSE -1

\* The outcome of the n-th localStorage.setItem(key, JSON.stringify(data)) of
\* a safeSaveToLocalStorage call.
setItem(ls, key, data, env, n) ==
    IF env.fault = n THEN "other"
    ELSE IF Len(data) > env.free + Used(ls, key) + 1 THEN "quota"
    ELSE "ok"

\* `catch (e: any)` catches every error and rethrows none.
CaughtMutant(outcome) == outcome = "quota"
Caught(outcome) == TRUE

\* Entries dropped from the tail per quota retry.
PruneApp == 3
PruneUtil == 2

pruneMutant(data, drop) == SubSeq(data, Len(data) - Max(0, Len(data) - drop) + 1, Len(data))
\* data.slice(0, Math.max(0, data.length - drop))
prune(data, drop) == SubSeq(data, 1, Max(0, Len(data) - drop))

SaveResult(ls, key, log, drop, raised, emptied) ==
    [ls |-> ls, key |-> key, log |-> log, drop |-> drop, raised |-> raised,
     emptied |-> emptied]

Attempt(data, outcome) == [data |-> data, outcome |-> outcome]

\* safeSaveToLocalStorage of App: prunes three at a time; a list pruned to
\* empty is not written and the key is left as it is.
RECURSIVE safeSaveApp(_, _, _, _, _)
safeSaveApp(ls, key, data, env, log) ==
    LET outcome == setItem(ls, key, data, env, Len(log) + 1)
        log2 == Append(log, Attempt(data, outcome))
        pruned == prune(data, PruneApp)
    IN  IF outcome = "ok"
        THEN SaveResult([ls EXCEPT ![key] = Stored(data)], key, log2, PruneApp,
                        FALSE, FALSE)
        ELSE IF outcome = "quota"
        THEN IF Len(pruned) > 0
             THEN safeSaveApp(ls, key, pruned, env, log2)
             ELSE SaveResult(ls, key, log2, PruneApp, FALSE, TRUE)
        ELSE SaveResult(ls, key, log2, PruneApp, ~Caught(outcome), FALSE)

\* safeSaveToLocalStorage of the utilities: prunes two at a time; a list
\* pruned to empty removes the key.
RECURSIVE safeSaveUtil(_, _, _, _, _)
safeSaveUtil(ls, key, data, env, log) ==
    LET outcome == setItem(ls, key, data, env, Len(log) + 1)
        log2 == Append(log, Attempt(data, outcome))
        pruned == prune(data, PruneUtil)
    IN  IF outcome = "ok"
        THEN SaveResult([ls EXCEPT ![key] = Stored(data)], key, log2, PruneUtil,
                        FALSE, FALSE)
        ELSE IF outcome = "quota"
        THEN IF Len(pruned) > 0
             THEN safeSaveUtil(ls, key, pruned, env, log2)
             ELSE SaveResult([ls EXCEPT ![key] = Absent], key, log2, PruneUtil,
                             FALSE, TRUE)
        ELSE SaveResult(ls, key, log2, PruneUtil, ~Caught(outcome), FALSE)

\* The free space after a save, given the free space before it.
FreeAfter(env, lsBefore, lsAfter, key) ==
    [env EXCEPT !.free = env.free + Used(lsBefore, key) - Used(lsAfter, key)]

\* ------------------------------------------------------------------ errors
\* An error message, by the texts handleHandleError looks for in it; an error
\* may carry no message at all.
Marks == {"API_KEY_MISSING", "API_KEY", "403", "Requested entity was not found"}
Message(marks) == [present |-> TRUE, marks |-> marks]
NoMessage == [present |-> FALSE, marks |-> {}]
Messages == {NoMessage, Message({}), Message({"API_KEY"}),
             Message({"API_KEY_MISSING", "API_KEY"}), Message({"403"}),
             Message({"Requested entity was not found"})}
RejectedWith(message) == [rejected |-> TRUE, images |-> <<>>, message |-> message]
Errors == {RejectedWith(m) : m \in Messages}

\* error?.message?.includes(text)
includes(error, text) == error.message.present /\ text \in error.message.marks

\* handleHandleError: what becomes of isApiKeyModalOpen, and the alert shown.
handleHandleErrorMutant(error, open) ==
    IF \/ includes(error, "API_KEY_MISSING")
       \/ includes(error, "API_KEY")
       \/ includes(error, "403")
    THEN [isApiKeyModalOpen |-> TRUE, alert |-> "none"]
    ELSE [isApiKeyModalOpen |-> open,
          alert |-> IF error.message.present THEN "generic: message"
                    ELSE "generic: unknown error"]
handleHandleError(error, open) ==
    IF \/ includes(error, "API_KEY_MISSING")
       \/ includes(error, "API_KEY")
       \/ includes(error, "403")
    THEN [isApiKeyModalOpen |-> TRUE, alert |-> "none"]
    ELSE IF includes(error, "Requested entity was not found")
    THEN [isApiKeyModalOpen |-> TRUE, alert |-> "none"]
    ELSE [isApiKeyModalOpen |-> open,
          alert |-> IF error.message.present THEN "generic: message"
                    ELSE "generic: unknown error"]

NoKey == <<"", "">>
NoSave == SaveResult(<<>>, NoKey, <<>>, 0, FALSE, FALSE)
\* The last handler, the key it saved last, and how that save ended.
StoreLast(op, key, save) ==
    [op |-> op, key |-> key, emptied |-> save.emptied, raised |-> save.raised,
     report |-> "none", failed |-> FALSE, message |-> NoMessage]
\* The handler showed an alert (or nothing, for alert "none").
Alert(last, alert) == [last EXCEPT !.report = alert]
\* The handler caught this error.
CaughtError(last, error) == [last EXCEPT !.failed = TRUE, !.message = error.message]


\* ------------------------------------------------------ App (render tabs)
\* The images a generation batch can return (at most two of the four).
Img(d) == DataUrl(PNG, d)
ImageLists == {<<>>, <<Img(1)>>, <<Img(1), Img(2)>>}

Item(id, images) == [id |-> id, images |-> images]

\* A displayed array: its contents, the history item whose images array it is
\* (0 when the array belongs to no history item), and whether what it shows
\* came from a history row.
View(images, aliasOf) == [images |-> images, aliasOf |-> aliasOf, restored |-> FALSE]
Restored(item) == [images |-> item.images, aliasOf |-> item.id, restored |-> TRUE]
EmptyView == View(<<>>, 0)

NoGeneration == [active |-> FALSE, renderType |-> ""]
NoUpscale == [active |-> FALSE, index |-> 0, view |-> EmptyView]

\* The generations in flight, each of which may create one history item.
InFlight == (IF appPending.active THEN 1 ELSE 0) + Cardinality(utilPending)

AppInit ==
    /\ appHistory = [k \in AppKeys |-> <<>>]
    /\ generatedImages = EmptyView
    /\ isLoading = FALSE
    /\ appPending = NoGeneration
    /\ appUpscale = NoUpscale
    /\ isApiKeyModalOpen = FALSE

\* The state of a UtilityRunner before its mount effects.
UtilInit ==
    /\ selectedTask = ""
    /\ utilityHistory = <<>>
    /\ resultImages = EmptyView
    /\ utilIsLoading = FALSE
    /\ utilPending = {}
    /\ utilUpscale = NoUpscale

StoreInit ==
    /\ mounted = FALSE
    /\ localStorage = [k \in Keys |-> Absent]
    /\ nextId = 1
    /\ AppInit
    /\ UtilInit
    /\ storeLast = StoreLast("init", NoKey, NoSave)

\* The first commit's save effects, in the order of their declaration: each
\* writes the initial empty list.
AppKeyOrder == <<HistoryKey("exterior"), HistoryKey("interior"), EditKey>>

RECURSIVE MountInitialSaves(_, _, _, _)
MountInitialSaves(ls, i, env, last) ==
    IF i > Len(AppKeyOrder) THEN [ls |-> ls, env |-> env, last |-> last]
    ELSE LET key == AppKeyOrder[i]
             r == safeSaveApp(ls, key, <<>>, env, <<>>)
         IN  MountInitialSaves(r.ls, i + 1, FreeAfter(env, ls, r.ls, key), r)

\* The save effects after the re-render with the loaded lists: one per key
\* that was present (JSON.parse returns a new array, also an empty one).
RECURSIVE MountLoadedSaves(_, _, _, _, _)
MountLoadedSaves(loaded, ls, i, env, last) ==
    IF i > Len(AppKeyOrder) THEN [ls |-> ls, env |-> env, last |-> last]
    ELSE LET key == AppKeyOrder[i]
             r == IF loaded[key].present
                  THEN safeSaveApp(ls, key, loaded[key].list, env, <<>>)
                  ELSE [last EXCEPT !.ls = ls]
         IN  MountLoadedSaves(loaded, r.ls, i + 1,
                              FreeAfter(env, ls, r.ls, key), r)

\* App's mount (a page load or reload): the load effect reads every key, the
\* save effects write the initial state, then the loaded state.
AppMountEffects(ls, env) ==
    LET first == MountInitialSaves(ls, 1, env, NoSave)
    IN  MountLoadedSaves(ls, first.ls, 1, first.env, first.last)

AppMount(env) ==
    LET r == AppMountEffects(localStorage, env)
    IN  /\ mounted' = TRUE
        /\ appHistory' = [k \in AppKeys |-> getItem(localStorage, k).list]
        /\ localStorage' = r.ls
        /\ generatedImages' = EmptyView
        /\ isLoading' = FALSE
        /\ appPending' = NoGeneration
        /\ appUpscale' = NoUpscale
        /\ isApiKeyModalOpen' = FALSE
        /\ selectedTask' = ""
        /\ utilityHistory' = <<>>
        /\ resultImages' = EmptyView
        /\ utilIsLoading' = FALSE
        /\ utilPending' = {}
        /\ utilUpscale' = NoUpscale
        /\ storeLast' = StoreLast("mount", r.last.key, r.last)
        /\ UNCHANGED nextId
        /\ UNCHANGED notStore

\* handleGeneration up to the await.  The trigger is disabled while
\* isLoading or without a source image; an empty prompt is refused.  The
\* source image is set and removed freely by the upload control and touches
\* nothing else, so the step stands for "an image is loaded, then the
\* trigger is pressed".
handleGenerationStart(renderType, hasPrompt) ==
    /\ mounted /\ ~isLoading
    /\ nextId + InFlight <= MaxItems
    /\ IF ~hasPrompt
       THEN /\ storeLast' = StoreLast("generation_refused", NoKey, NoSave)
            /\ UNCHANGED <<isLoading, generatedImages, appPending>>
       ELSE /\ isLoading' = TRUE
            /\ generatedImages' = EmptyView
            /\ appPending' = [active |-> TRUE, renderType |-> renderType]
            /\ storeLast' = StoreLast("generation_start", NoKey, NoSave)
    /\ UNCHANGED <<mounted, localStorage, nextId, appHistory,
                   appUpscale, isApiKeyModalOpen>>
    /\ UNCHANGED utilVars
    /\ UNCHANGED notStore

\* setXHistory((prev) => [newHistoryItem, ...prev])
prependMutant(item, prev) == Append(prev, item)
prepend(item, prev) == <<item>> \o prev

\* handleGeneration after the await: the result is displayed and recorded
\* (also when it is empty), and the list's save effect runs; a rejection goes
\* to handleHandleError.
handleGenerationSettle(r, env) ==
    /\ appPending.active
    /\ IF r.rejected
       THEN LET outcome == handleHandleError(r, isApiKeyModalOpen)
            IN  /\ isApiKeyModalOpen' = outcome.isApiKeyModalOpen
                /\ storeLast' = Alert(CaughtError(StoreLast("render_error", NoKey,
                                                            NoSave), r),
                                      outcome.alert)
                /\ UNCHANGED <<generatedImages, appHistory, localStorage, nextId>>
       ELSE LET key == HistoryKey(appPending.renderType)
                newHistoryItem == Item(nextId, r.images)
                list == prepend(newHistoryItem, appHistory[key])
                save == safeSaveApp(localStorage, key, list, env, <<>>)
            IN  /\ generatedImages' = View(r.images, nextId)
                /\ appHistory' = [appHistory EXCEPT ![key] = list]
                /\ localStorage' = save.ls
                /\ nextId' = nextId + 1
                /\ storeLast' = StoreLast("record", key, save)
                /\ UNCHANGED isApiKeyModalOpen
    /\ isLoading' = FALSE
    /\ appPending' = NoGeneration
    /\ UNCHANGED <<mounted, appUpscale>>
    /\ UNCHANGED utilVars
    /\ UNCHANGED notStore

\* HistoryPanel / EditHistoryPanel onClear: setXHistory([]), then the list's
\* save effect.  The button is rendered for a non-empty list only.
onClear(key, env) ==
    /\ mounted
    /\ Len(appHistory[key]) > 0
    /\ LET save == safeSaveApp(localStorage, key, <<>>, env, <<>>)
       IN  /\ appHistory' = [appHistory EXCEPT ![key] = <<>>]
           /\ localStorage' = save.ls
           /\ storeLast' = StoreLast("clear", key, save)
    /\ UNCHANGED <<mounted, nextId, generatedImages, isLoading,
                   appPending, appUpscale, isApiKeyModalOpen>>
    /\ UNCHANGED utilVars
    /\ UNCHANGED notStore

\* HistoryPanel onSelect: setGeneratedImages(item.images).
onSelect(key, i) ==
    /\ mounted
    /\ MultiImage(key)
    /\ i \in 1..Len(appHistory[key])
    /\ generatedImages' = Restored(appHistory[key][i])
    /\ storeLast' = StoreLast("select", key, NoSave)
    /\ UNCHANGED <<mounted, localStorage, nextId, appHistory,
                   isLoading, appPending, appUpscale, isApiKeyModalOpen>>
    /\ UNCHANGED utilVars
    /\ UNCHANGED notStore

\* handleUpscale up to the await; the upscale buttons are rendered only while
\* upscalingIndex is null.
handleUpscaleStart(index) ==
    /\ mounted
    /\ ~appUpscale.active
    /\ index \in 1..Len(generatedImages.images)
    /\ dataUrlToSourceImage(generatedImages.images[index]) # NULL
    /\ appUpscale' = [active |-> TRUE, index |-> index, view |-> generatedImages]
    /\ storeLast' = StoreLast("upscale_start", NoKey, NoSave)
    /\ UNCHANGED <<mounted, localStorage, nextId, appHistory,
                   generatedImages, isLoading, appPending, isApiKeyModalOpen>>
    /\ UNCHANGED utilVars
    /\ UNCHANGED notStore

\* const newImages = [...generatedImages]; newImages[index] = result
replaceImageMutant(view, index, result) ==
    [view EXCEPT !.images[index] = result]
replaceImage(view, index, result) ==
    [view EXCEPT !.images[index] = result, !.aliasOf = 0]

\* An array shared by reference has one content: a history item whose images
\* array is the displayed array shows what the displayed array holds.
SharedArrays(list, view) ==
    [i \in 1..Len(list) |->
        IF list[i].id = view.aliasOf THEN Item(list[i].id, view.images)
        ELSE list[i]]

\* handleUpscale after the await.  r is the settlement of upscaleImage.
handleUpscaleSettle(r) ==
    /\ appUpscale.active
    /\ IF ~r.rejected /\ Len(r.images) > 0
       THEN /\ generatedImages' = replaceImage(appUpscale.view, appUpscale.index,
                                               r.images[1])
            /\ appHistory' = [k \in AppKeys |->
                                 SharedArrays(appHistory[k], generatedImages')]
            /\ storeLast' = StoreLast("upscale", NoKey, NoSave)
            /\ UNCHANGED isApiKeyModalOpen
       ELSE IF r.rejected
       THEN LET outcome == handleHandleError(r, isApiKeyModalOpen)
            IN  /\ isApiKeyModalOpen' = outcome.isApiKeyModalOpen
                /\ storeLast' = Alert(CaughtError(StoreLast("upscale_error", NoKey,
                                                            NoSave), r),
                                      outcome.alert)
                /\ UNCHANGED <<generatedImages, appHistory>>
       ELSE /\ storeLast' = StoreLast("upscale_empty", NoKey, NoSave)
            /\ UNCHANGED <<generatedImages, appHistory, isApiKeyModalOpen>>
    /\ appUpscale' = NoUpscale
    /\ UNCHANGED <<mounted, localStorage, nextId, isLoading,
                   appPending>>
    /\ UNCHANGED utilVars
    /\ UNCHANGED notStore


\* -------------------------------------------------------- material analysis
\* A MaterialOption, by its id and by whether its designKeywords and
\* gateDesign are non-empty.
Tiers == <<"cheap", "medium", "premium">>
MaterialOption(id, designKeywords, gateDesign) ==
    [id |-> id, designKeywords |-> designKeywords, gateDesign |-> gateDesign]
\* The ids a response can carry: the tiers, and one that is none of them.
Ids == {Tiers[i] : i \in 1..3} \cup {"other"}

\* A JSON value: an array of options, or something that is not an array.
JsonArray(items) == [kind |-> "array", items |-> items]
JsonObject == [kind |-> "object", items |-> <<>>]
OptionArrays ==
    UNION {[1..n -> {MaterialOption(id, TRUE, TRUE) : id \in Ids}] :
               n \in 0..MaxOptions}
\* What response.text can hold: nothing readable, only white space, text
\* that is no JSON, or JSON; each possibly inside ```json fences.
Bodies == {[kind |-> "blank", items |-> <<>>], [kind |-> "garbage", items |-> <<>>],
           JsonObject} \cup {JsonArray(items) : items \in OptionArrays}
NoText == [present |-> FALSE, fenced |-> FALSE, body |-> [kind |-> "blank", items |-> <<>>]]
Texts == {NoText} \cup
         {[present |-> TRUE, fenced |-> f, body |-> b] : f \in BOOLEAN, b \in Bodies}

\* The array returned from the catch branch.
fallbackOptions ==
    JsonArray([i \in 1..3 |-> MaterialOption(Tiers[i], TRUE, TRUE)])

\* response.text?.trim().replace(/```json|```/g, "") || "[]", then JSON.parse
\* with the fallback array on a parse error.
parseMaterialOptions(text) ==
    IF ~text.present \/ text.body.kind = "blank" THEN JsonArray(<<>>)
    ELSE IF text.body.kind = "garbage" THEN fallbackOptions
    ELSE text.body

\* ------------------------------------------- UtilityRunner (prompt effects)
\* A prompt is the sequence of its clauses; '' has none.
EmptyPrompt == <<>>
skipAnalysis == {"virtual_staging", "change_material", "facade_from_land"}

\* The guard of the auto-analysis effect, in the render that runs it.
autoAnalysis(task, image1, text, analyzing) ==
    image1 # 0 /\ task \notin skipAnalysis /\ text = EmptyPrompt /\ ~analyzing

\* The guard of the material-replacement analysis effect.
materialAnalysis(task, image1, image2, text, analyzing) ==
    task = "change_material" /\ image1 # 0 /\ image2 # 0
        /\ text = EmptyPrompt /\ ~analyzing

\* The staging effect writes the prompt at mount; the other tasks start with
\* useState('').
initialPrompt(task) ==
    IF task = "virtual_staging" THEN <<"staging">> ELSE EmptyPrompt

\* The facade controls: a value chosen, or '' (null for the palette and the
\* material).
NoPalette == ""
NoMaterial == MaterialOption("", FALSE, FALSE)

\* fixedPrompt of the facade prompt effect, clause by clause.
fixedPromptMutant(material, palette) ==
    <<"facade">>
        \o (IF palette # NoPalette THEN <<"color">> ELSE <<>>)
        \o <<"materials">>
        \o (IF material.gateDesign THEN <<"gateDesign">> ELSE <<>>)
        \o (IF material.designKeywords THEN <<"designKeywords">> ELSE <<>>)
        \o <<"preserve">>
fixedPrompt(material, palette) ==
    <<"facade">>
        \o (IF palette # NoPalette THEN <<"color">> ELSE <<>>)
        \o <<"materials">>
        \o (IF material.designKeywords THEN <<"designKeywords">> ELSE <<>>)
        \o (IF material.gateDesign THEN <<"gateDesign">> ELSE <<>>)
        \o <<"preserve">>

\* The facade prompt effect, run when one of its dependencies changed.
facadePromptEffect(material, image1, palette, old) ==
    IF material # NoMaterial /\ image1 # 0 THEN fixedPrompt(material, palette)
    ELSE old

FacadeInit ==
    /\ floors = ""
    /\ selectedHouseType = ""
    /\ selectedFacadeStyle = ""
    /\ selectedColorPalette = NoPalette
    /\ materialOptions = JsonArray(<<>>)
    /\ selectedMaterial = NoMaterial
    /\ isAnalyzingMaterialsSuggestions = FALSE
    /\ materialsPending = [live |-> 0, orphaned |-> 0]

\* The last step; for a settled describe request, the image it analysed and
\* whether its text was passed to setPrompt.
AnalysisLast(op, task, text, analyzing) ==
    [op |-> op, task |-> task, prompt |-> text, isAnalyzing |-> analyzing,
     analysed |-> 0, staged |-> FALSE]

AnalyzeInit ==
    /\ sourceImage1 = 0
    /\ sourceImage2 = 0
    /\ nextUpload = 1
    /\ prompt = EmptyPrompt
    /\ isAnalyzing = FALSE
    /\ analysisPending = [live |-> <<>>, orphaned |-> 0]
    /\ described = [u \in 1..MaxUploads |-> 0]
    /\ analysisLast = AnalysisLast("init", "", EmptyPrompt, FALSE)
    /\ FacadeInit

\* --------------------------------------------------- UtilityRunner (tasks)
\* UtilitiesTab's setSelectedTask(t) mounts a UtilityRunner, whose load
\* effect reads the task's key.
setSelectedTask(task) ==
    /\ mounted /\ ~editorOpen
    /\ selectedTask = ""
    /\ selectedTask' = task
    /\ utilityHistory' = getItem(localStorage, UtilKey(task)).list
    /\ storeLast' = StoreLast("select_task", UtilKey(task), NoSave)
    /\ prompt' = initialPrompt(task)
    /\ analysisLast' = AnalysisLast("mount", task, prompt', FALSE)
    /\ UNCHANGED <<resultImages, utilIsLoading, utilPending,
                   utilUpscale>>
    /\ UNCHANGED <<mounted, localStorage, nextId, appVars>>
    /\ UNCHANGED <<sourceImage1, sourceImage2, nextUpload, isAnalyzing,
                   analysisPending, described, facadeVars>>
    /\ UNCHANGED auxVars
    /\ UNCHANGED <<tourVars, fanVars, saveVars, maskVars>>

\* onBack (or leaving the utilities tab) unmounts the runner: its state is
\* gone, its requests in flight are not aborted.
onBack ==
    /\ selectedTask # ""
    /\ selectedTask' = ""
    /\ utilityHistory' = <<>>
    /\ resultImages' = EmptyView
    /\ utilIsLoading' = FALSE
    /\ utilUpscale' = NoUpscale
    /\ utilPending' = {[p EXCEPT !.live = FALSE] : p \in utilPending}
    /\ storeLast' = StoreLast("back", NoKey, NoSave)
    /\ strokeLayer' = createCanvas
    /\ sourceImage1' = 0
    /\ sourceImage2' = 0
    /\ prompt' = EmptyPrompt
    /\ isAnalyzing' = FALSE
    /\ analysisPending' = [live |-> <<>>,
                           orphaned |-> analysisPending.orphaned
                                            + Len(analysisPending.live)]
    /\ analysisLast' = AnalysisLast("back", "", EmptyPrompt, FALSE)
    /\ floors' = ""
    /\ selectedHouseType' = ""
    /\ selectedFacadeStyle' = ""
    /\ selectedColorPalette' = NoPalette
    /\ materialOptions' = JsonArray(<<>>)
    /\ selectedMaterial' = NoMaterial
    /\ isAnalyzingMaterialsSuggestions' = FALSE
    /\ materialsPending' = [live |-> 0,
                            orphaned |-> materialsPending.orphaned
                                             + materialsPending.live]
    /\ UNCHANGED <<nextUpload, described>>
    /\ UNCHANGED <<mounted, localStorage, nextId, appVars>>
    /\ UNCHANGED auxVars
    /\ UNCHANGED <<tourVars, fanVars, saveVars, maskImage, maskLast, editorVars>>

\* handleGenerate up to the await.  The call closes over the utilityHistory
\* of the render it was created in.  The trigger is disabled while isLoading
\* or without a source image (loaded freely, as in the render tabs).  For
\* change_material the mask is built from the drawing canvas first.
handleGenerateStart ==
    /\ selectedTask # "" /\ ~utilIsLoading /\ ~isAnalyzing
    /\ nextId + InFlight <= MaxItems
    /\ Cardinality(utilPending) < MaxPending
    /\ utilIsLoading' = TRUE
    /\ utilPending' = utilPending \cup
           {[task |-> selectedTask, utilityHistory |-> utilityHistory,
             live |-> TRUE]}
    /\ storeLast' = StoreLast("generation_start", NoKey, NoSave)
    /\ IF selectedTask = "change_material"
       THEN /\ maskImage' = utilityMask(strokeLayer)
            /\ maskLast' = "mask"
       ELSE UNCHANGED <<maskImage, maskLast>>
    /\ UNCHANGED <<selectedTask, utilityHistory, resultImages,
                   utilUpscale>>
    /\ UNCHANGED <<mounted, localStorage, nextId, appVars>>
    /\ UNCHANGED auxVars
    /\ UNCHANGED <<tourVars, fanVars, saveVars, strokeLayer, editorVars,
                   analyzeVars>>

\* const newHistory = [newItem, ...utilityHistory]
newHistoryMutant(newItem, closure, current) == <<newItem>> \o current
newHistory(newItem, closure, current) == <<newItem>> \o closure

\* handleGenerate after the await, for the call with closure p.  State
\* updates of an unmounted runner are dropped; the storage write is not.
handleGenerateSettle(p, r, env) ==
    /\ p \in utilPending
    /\ IF ~r.rejected /\ Len(r.images) > 0
       THEN LET key == UtilKey(p.task)
                newItem == Item(nextId, r.images)
                list == newHistory(newItem, p.utilityHistory, utilityHistory)
                save == safeSaveUtil(localStorage, key, list, env, <<>>)
            IN  /\ resultImages' = IF p.live THEN View(r.images, nextId)
                                   ELSE resultImages
                /\ utilityHistory' = IF p.live THEN list ELSE utilityHistory
                /\ localStorage' = save.ls
                /\ nextId' = nextId + 1
                /\ storeLast' = StoreLast(IF p.live THEN "record" ELSE "record_unmounted",
                                          key, save)
       ELSE /\ storeLast' = IF r.rejected
                            THEN Alert(StoreLast("generation_error", NoKey, NoSave),
                                       "generic")
                            ELSE StoreLast("generation_empty", NoKey, NoSave)
            /\ UNCHANGED <<resultImages, utilityHistory, localStorage, nextId>>
    /\ utilIsLoading' = IF p.live THEN FALSE ELSE utilIsLoading
    /\ utilPending' = utilPending \ {p}
    /\ UNCHANGED <<selectedTask, utilUpscale>>
    /\ UNCHANGED <<mounted, appVars>>
    /\ UNCHANGED notStore

\* The ids of the items of a list.
IdsOf(list) == {list[i].id : i \in 1..Len(list)}

\* The clear-history button (rendered for a non-empty list, and confirmed):
\* setUtilityHistory([]); localStorage.removeItem(key).
clearUtilityHistory ==
    /\ selectedTask # ""
    /\ Len(utilityHistory) > 0
    /\ utilityHistory' = <<>>
    /\ localStorage' = [localStorage EXCEPT ![UtilKey(selectedTask)] = Absent]
    /\ storeLast' = StoreLast("clear", UtilKey(selectedTask), NoSave)
    /\ cleared' = cleared \cup IdsOf(utilityHistory)
                          \cup IdsOf(localStorage[UtilKey(selectedTask)].list)
    /\ UNCHANGED <<selectedTask, resultImages, utilIsLoading,
                   utilPending, utilUpscale>>
    /\ UNCHANGED <<mounted, nextId, appVars>>
    /\ UNCHANGED <<keyVars, uploadLast, materialLast, strokeVars>>
    /\ UNCHANGED <<tourVars, fanVars, saveVars, maskVars, analyzeVars>>

\* A history row's onClick: setResultImages(item.images).
selectUtilityItem(i) ==
    /\ selectedTask # ""
    /\ i \in 1..Len(utilityHistory)
    /\ resultImages' = Restored(utilityHistory[i])
    /\ storeLast' = StoreLast("select", UtilKey(selectedTask), NoSave)
    /\ UNCHANGED <<selectedTask, utilityHistory, utilIsLoading, utilPending,
                   utilUpscale>>
    /\ UNCHANGED <<mounted, localStorage, nextId, appVars>>
    /\ UNCHANGED notStore

\* UtilityRunner.handleUpscale up to the await, on the selected image; the
\* upscale buttons are rendered only while upscalingIndex is null and the
\* results only while not loading.
handleUpscaleUtilStart(selectedImageIndex) ==
    /\ selectedTask # ""
    /\ ~utilUpscale.active /\ ~utilIsLoading
    /\ selectedImageIndex \in 1..Len(resultImages.images)
    /\ dataUrlToSourceImage(resultImages.images[selectedImageIndex]) # NULL
    /\ utilUpscale' = [active |-> TRUE, index |-> selectedImageIndex,
                       view |-> resultImages]
    /\ storeLast' = StoreLast("upscale_start", NoKey, NoSave)
    /\ UNCHANGED <<selectedTask, utilityHistory, resultImages, utilIsLoading,
                   utilPending>>
    /\ UNCHANGED <<mounted, localStorage, nextId, appVars>>
    /\ UNCHANGED notStore

\* UtilityRunner.handleUpscale after the await.
handleUpscaleUtilSettle(r) ==
    /\ utilUpscale.active
    /\ IF ~r.rejected /\ Len(r.images) > 0
       THEN /\ resultImages' = replaceImage(utilUpscale.view, utilUpscale.index,
                                            r.images[1])
            /\ utilityHistory' = SharedArrays(utilityHistory, resultImages')
            /\ storeLast' = StoreLast("upscale", NoKey, NoSave)
       ELSE /\ storeLast' = IF r.rejected
                            THEN Alert(StoreLast("upscale_failed", NoKey, NoSave),
                                       "generic")
                            ELSE StoreLast("upscale_failed", NoKey, NoSave)
            /\ UNCHANGED <<resultImages, utilityHistory>>
    /\ utilUpscale' = NoUpscale
    /\ UNCHANGED <<selectedTask, utilIsLoading, utilPending>>
    /\ UNCHANGED <<mounted, localStorage, nextId, appVars>>
    /\ UNCHANGED notStore

UtilOpen == \E t \in UtilTasks : setSelectedTask(t)
UtilGenerated == \E p \in utilPending, images \in {<<Img(1), Img(1)>>}, env \in Envs :
                     handleGenerateSettle(p, Resolved(images), env)
UtilGenerationFails == \E p \in utilPending, r \in {Resolved(<<>>), Rejected}, env \in Envs :
                           handleGenerateSettle(p, r, env)

AppLoad == \E env \in Envs : AppMount(env)
AppGenerate == \E t \in RenderTypes, p \in BOOLEAN : handleGenerationStart(t, p)
AppGenerated == \E images \in {<<Img(1), Img(1)>>}, env \in Envs :
                    handleGenerationSettle(Resolved(images), env)
AppGenerationFails == \E env \in Envs : handleGenerationSettle(Rejected, env)
AppGeneratedEmpty == \E env \in Envs : handleGenerationSettle(Resolved(<<>>), env)
AppClear == \E k \in AppKeys, env \in Envs : onClear(k, env)
AppSelect == \E k \in AppKeys, i \in 1..MaxItems : onSelect(k, i)
AppUpscale == \E i \in 1..2 : handleUpscaleStart(i)
AppUpscaled == \E d \in Data : handleUpscaleSettle(Resolved(<<Img(d)>>))
AppUpscaleFails == \E r \in {Resolved(<<>>), Rejected} : handleUpscaleSettle(r)
AppUpscaleError == \E e \in Errors : handleUpscaleSettle(e)

\* ApiKeyModal onSuccess: setIsApiKeyModalOpen(false).
onSuccess ==
    /\ isApiKeyModalOpen
    /\ isApiKeyModalOpen' = FALSE
    /\ storeLast' = StoreLast("key_saved", NoKey, NoSave)
    /\ UNCHANGED <<mounted, localStorage, nextId, appHistory, generatedImages,
                   isLoading, appPending, appUpscale>>
    /\ UNCHANGED utilVars
    /\ UNCHANGED notStore
UtilSelect == \E i \in 1..MaxItems : selectUtilityItem(i)
UtilUpscale == \E i \in 1..2 : handleUpscaleUtilStart(i)
UtilUpscaled == \E d \in Data : handleUpscaleUtilSettle(Resolved(<<Img(d)>>))
UtilUpscaleFails == \E r \in {Resolved(<<>>), Rejected} : handleUpscaleUtilSettle(r)

StoreNext ==
    \/ AppLoad
    \/ AppGenerate
    \/ AppGenerated
    \/ AppGenerationFails
    \/ AppGeneratedEmpty
    \/ AppClear
    \/ UtilOpen
    \/ onBack
    \/ handleGenerateStart
    \/ UtilGenerated
    \/ UtilGenerationFails
    \/ clearUtilityHistory

\* Restoring and upscaling, followed on fewer items, one generation at a
\* time, and with storage that has room: neither operation writes to storage
\* or starts a generation.
ViewEnv == [free |-> MaxFree, fault |-> 0]
ViewLoad == AppMount(ViewEnv)
ViewGenerate == nextId <= MaxViewItems /\ InFlight = 0 /\ AppGenerate
ViewGenerated == handleGenerationSettle(Resolved(<<Img(1), Img(1)>>), ViewEnv)
ViewGenerationFails == \E e \in Errors : handleGenerationSettle(e, ViewEnv)
ViewUtilGenerate == nextId <= MaxViewItems /\ InFlight = 0 /\ handleGenerateStart
ViewUtilGenerated == \E p \in utilPending :
                         handleGenerateSettle(p, Resolved(<<Img(1), Img(1)>>), ViewEnv)

ViewNext ==
    \/ ViewLoad
    \/ ViewGenerate
    \/ ViewGenerated
    \/ AppSelect
    \/ AppUpscale
    \/ AppUpscaled
    \/ AppUpscaleFails
    \/ UtilOpen
    \/ onBack
    \/ ViewUtilGenerate
    \/ ViewUtilGenerated
    \/ UtilSelect
    \/ UtilUpscale
    \/ UtilUpscaled
    \/ UtilUpscaleFails

\* The render tabs with every kind of error, and the credential prompt.
ErrorNext ==
    \/ ViewLoad
    \/ ViewGenerate
    \/ ViewGenerated
    \/ ViewGenerationFails
    \/ AppSelect
    \/ AppUpscale
    \/ AppUpscaled
    \/ AppUpscaleError
    \/ onSuccess

\* ---------------------------------------------- mask painting: the steps
NoResult == [shown |-> FALSE, images |-> <<>>]
EditorLast(op, report) == [op |-> op, report |-> report]

MaskInit ==
    /\ strokeLayer = createCanvas
    /\ maskImage = <<>>
    /\ maskLast = "init"
    /\ editorOpen = FALSE
    /\ editorIsLoading = FALSE
    /\ editorPending = [live |-> 0, orphaned |-> 0]
    /\ resultImage = NoResult
    /\ editorLast = EditorLast("init", "none")

\* A drawing canvas is on screen: the editor's, or the runner's for
\* change_material.
canvasMounted == editorOpen \/ selectedTask = "change_material"

\* draw: ctx.stroke() covers pixel p with the stroke colour at the brush's
\* alpha, or less at the antialiased edge of the stroke.
draw(p, coverage) ==
    /\ canvasMounted
    /\ strokeLayer' = [strokeLayer EXCEPT
                          ![p] = SourceOver(Pixel(StrokeColor, coverage), @)]
    /\ maskLast' = "draw"
    /\ UNCHANGED <<maskImage, editorVars>>
    /\ UNCHANGED notMask

Stroke == \E p \in Pixels, coverage \in 1..MaxAlpha : draw(p, coverage)

\* What the canvas handlers of the editor leave alone.
strokeFrame ==
    /\ UNCHANGED <<tourVars, fanVars, storeVars, saveVars, analyzeVars>>
    /\ UNCHANGED <<keyVars, uploadLast, materialLast, cleared>>

\* clearMask: ctx.clearRect over the whole drawing canvas, and
\* setDrawingHistory([]).
clearMask ==
    /\ canvasMounted
    /\ strokeLayer' = createCanvas
    /\ drawingHistory' = <<>>
    /\ maskLast' = "clear"
    /\ UNCHANGED <<maskImage, editorVars, isDrawing>>
    /\ strokeFrame

\* startDrawing (onMouseDown): setIsDrawing(true); beginPath and moveTo
\* paint nothing.
startDrawing ==
    /\ editorOpen
    /\ isDrawing' = TRUE
    /\ maskLast' = "start"
    /\ UNCHANGED <<strokeLayer, maskImage, editorVars, drawingHistory>>
    /\ strokeFrame

\* stopDrawing (onMouseUp and onMouseLeave): the layer is snapshot onto the
\* stack and isDrawing is cleared.
stopDrawing ==
    /\ editorOpen
    /\ Len(drawingHistory) < MaxStrokes
    /\ drawingHistory' = Append(drawingHistory, strokeLayer)
    /\ isDrawing' = FALSE
    /\ maskLast' = "stop"
    /\ UNCHANGED <<strokeLayer, maskImage, editorVars>>
    /\ strokeFrame

\* ImageEditor.handleUndo: the last snapshot is dropped and the layer is
\* cleared, then repainted from the snapshot that is now last.
undoStroke ==
    /\ editorOpen
    /\ Len(drawingHistory) > 0
    /\ LET shorter == SubSeq(drawingHistory, 1, Len(drawingHistory) - 1)
       IN  /\ drawingHistory' = shorter
           /\ strokeLayer' = IF Len(shorter) > 0
                             THEN shorter[Len(shorter)]
                             ELSE createCanvas
    /\ maskLast' = "undo"
    /\ UNCHANGED <<maskImage, editorVars, isDrawing>>
    /\ strokeFrame

\* draw (onMouseMove) in the editor: nothing unless a stroke is in progress.
StrokeMove == editorOpen /\ isDrawing /\ \E p \in Pixels : draw(p, MaxAlpha)

\* App: setActiveTab("edit") mounts an ImageEditor (the utilities tab, if
\* it was shown, having been left first).
openEditor ==
    /\ mounted /\ ~editorOpen /\ selectedTask = ""
    /\ editorOpen' = TRUE
    /\ editorLast' = EditorLast("open", "none")
    /\ UNCHANGED <<editorIsLoading, editorPending, resultImage>>
    /\ UNCHANGED <<strokeLayer, maskImage, maskLast>>
    /\ UNCHANGED notMask

\* setActiveTab(another tab) unmounts the editor: its state and canvas are
\* gone, its requests in flight are not aborted.
leaveEditor ==
    /\ editorOpen
    /\ editorOpen' = FALSE
    /\ editorIsLoading' = FALSE
    /\ resultImage' = NoResult
    /\ editorPending' = [live |-> 0,
                         orphaned |-> editorPending.orphaned + editorPending.live]
    /\ strokeLayer' = createCanvas
    /\ isDrawing' = FALSE
    /\ drawingHistory' = <<>>
    /\ editorLast' = EditorLast("leave", "none")
    /\ UNCHANGED <<maskImage, maskLast>>
    /\ strokeFrame

\* ImageEditor.handleGenerate up to the await: the mask is built from the
\* drawing canvas and the request is issued.  The trigger is disabled while
\* isLoading or without an image (loaded freely); an empty prompt is refused.
editorGenerateStart(hasPrompt) ==
    /\ editorOpen /\ ~editorIsLoading
    /\ editorPending.live + editorPending.orphaned < MaxEdits
    /\ IF ~hasPrompt
       THEN /\ editorLast' = EditorLast("edit_refused", "alert")
            /\ UNCHANGED <<maskImage, maskLast, editorIsLoading, editorPending,
                           resultImage>>
       ELSE /\ maskImage' = generateMaskImage(strokeLayer)
            /\ maskLast' = "mask"
            /\ editorIsLoading' = TRUE
            /\ resultImage' = NoResult
            /\ editorPending' = [editorPending EXCEPT !.live = 1]
            /\ editorLast' = EditorLast("edit_start", "none")
    /\ UNCHANGED <<editorOpen, strokeLayer>>
    /\ UNCHANGED notMask

\* App renders <ImageEditor onEditComplete={() => {}} />: the edit history
\* after the callback is the edit history before it.
onEditComplete(editHistory, item) == editHistory

\* ImageEditor.handleGenerate after the await, for the call of the mounted
\* editor (live) or of an editor since unmounted, whose state updates are
\* dropped.  editImage resolves to an array, which `if (result)` takes for a
\* result also when it is empty.
editorGenerateSettle(r, live) ==
    /\ IF live THEN editorPending.live = 1 ELSE editorPending.orphaned > 0
    /\ editorPending' = IF live THEN [editorPending EXCEPT !.live = 0]
                        ELSE [editorPending EXCEPT !.orphaned = @ - 1]
    /\ editorIsLoading' = IF live THEN FALSE ELSE editorIsLoading
    /\ IF ~r.rejected
       THEN /\ resultImage' = IF live THEN [shown |-> TRUE, images |-> r.images]
                               ELSE resultImage
            /\ appHistory' = [appHistory EXCEPT
                                 ![EditKey] = onEditComplete(@, r.images)]
            /\ editorLast' = EditorLast(IF Len(r.images) > 0 THEN "edit_ok"
                                        ELSE "edit_empty", "none")
       ELSE /\ editorLast' = EditorLast("edit_error", "alert")
            /\ UNCHANGED <<resultImage, appHistory>>
    /\ UNCHANGED <<editorOpen, strokeLayer, maskImage, maskLast>>
    /\ UNCHANGED auxVars
    /\ UNCHANGED <<tourVars, fanVars, saveVars, analyzeVars>>
    /\ UNCHANGED <<mounted, localStorage, nextId, generatedImages, isLoading,
                   appPending, appUpscale, isApiKeyModalOpen, utilVars, storeLast>>

EditorGenerate == \E hasPrompt \in BOOLEAN : editorGenerateStart(hasPrompt)
EditorEdited == \E live \in BOOLEAN :
                    editorGenerateSettle(Resolved(<<Img(1), Img(1)>>), live)
EditorEditedEmpty == \E live \in BOOLEAN : editorGenerateSettle(Resolved(<<>>), live)
EditorEditFails == \E live \in BOOLEAN : editorGenerateSettle(Rejected, live)

\* The editor's canvas: strokes, undo and clear.
StrokeNext ==
    \/ ViewLoad
    \/ openEditor
    \/ leaveEditor
    \/ startDrawing
    \/ StrokeMove
    \/ stopDrawing
    \/ undoStroke
    \/ clearMask

MaskNext ==
    \/ ViewLoad
    \/ openEditor
    \/ leaveEditor
    \/ Stroke
    \/ clearMask
    \/ EditorGenerate
    \/ EditorEdited
    \/ EditorEditedEmpty
    \/ EditorEditFails
    \/ UtilOpen
    \/ onBack
    \/ handleGenerateStart
    \/ UtilGenerationFails

\* ------------------------------------- safeSaveToLocalStorage on its own
\* A most-recent-first list of n items.
Desc(n) == [i \in 1..n |-> Item(n + 1 - i, <<Img(1)>>)]

\* What a key can hold before a write: nothing, or the most recent entries of
\* an earlier list.
EarlierStored ==
    {Absent} \cup UNION {{Stored(SubSeq(Desc(k), 1, m)) : m \in 0..k} : k \in 0..MaxLen}

IdleCall == [key |-> NoKey, data |-> <<>>, env |-> [free |-> 0, fault |-> 0]]

SaveIdle ==
    /\ saveCall = IdleCall
    /\ saveDone = [done |-> FALSE, result |-> NoSave]

\* A call about to be made: any key, any list, any storage situation.
SaveInputs ==
    /\ \E key \in Keys, n \in 0..MaxLen, env \in Envs, old \in EarlierStored :
          /\ saveCall = [key |-> key, data |-> Desc(n), env |-> env]
          /\ localStorage = [k \in Keys |-> IF k = key THEN old ELSE Absent]
    /\ saveDone = [done |-> FALSE, result |-> NoSave]

CallSafeSaveApp ==
    /\ ~saveDone.done
    /\ saveCall.key \in AppKeys
    /\ LET r == safeSaveApp(localStorage, saveCall.key, saveCall.data,
                            saveCall.env, <<>>)
       IN  /\ localStorage' = r.ls
           /\ saveDone' = [done |-> TRUE, result |-> [r EXCEPT !.ls = <<>>]]
    /\ UNCHANGED saveCall
    /\ UNCHANGED notSave

CallSafeSaveUtil ==
    /\ ~saveDone.done
    /\ saveCall.key \in UtilKeys
    /\ LET r == safeSaveUtil(localStorage, saveCall.key, saveCall.data,
                             saveCall.env, <<>>)
       IN  /\ localStorage' = r.ls
           /\ saveDone' = [done |-> TRUE, result |-> [r EXCEPT !.ls = <<>>]]
    /\ UNCHANGED saveCall
    /\ UNCHANGED notSave

SaveNext ==
    \/ CallSafeSaveApp
    \/ CallSafeSaveUtil

\* ---------------------------------------------- prompt analysis: the steps
\* ImageUpload's onImageUpload (setSourceImage1 or setSourceImage2) and the
\* effects of the render that follows.  The auto-analysis effect depends on
\* sourceImage1, the material-replacement effect on both images; an effect
\* whose guard holds sets isAnalyzing and issues its describe request, which
\* closes over the sourceImage1 of that render.
onImageUpload(slot) ==
    /\ selectedTask # ""
    /\ slot = 2 => selectedTask = "change_material"
    /\ nextUpload <= MaxUploads
    /\ LET image1 == IF slot = 1 THEN nextUpload ELSE sourceImage1
           image2 == IF slot = 2 THEN nextUpload ELSE sourceImage2
           auto == slot = 1 /\ autoAnalysis(selectedTask, image1, prompt,
                                            isAnalyzing)
           material == materialAnalysis(selectedTask, image1, image2, prompt,
                                        isAnalyzing)
       IN  /\ sourceImage1' = image1
           /\ sourceImage2' = image2
           /\ nextUpload' = nextUpload + 1
           /\ IF auto \/ material
              THEN /\ Len(analysisPending.live) + analysisPending.orphaned
                          < MaxAnalyses
                   /\ isAnalyzing' = TRUE
                   /\ analysisPending' =
                          [analysisPending EXCEPT !.live = Append(@, image1)]
                   /\ described' =
                          [u \in 1..MaxUploads |->
                              IF u = image1 \/ (material /\ u = image2)
                              THEN described[u] + 1 ELSE described[u]]
                   /\ analysisLast' = AnalysisLast("request", selectedTask,
                                                   prompt, isAnalyzing)
              ELSE /\ analysisLast' = AnalysisLast("upload", selectedTask,
                                                   prompt, isAnalyzing)
                   /\ UNCHANGED <<isAnalyzing, analysisPending, described>>
    /\ prompt' = facadePromptEffect(selectedMaterial, sourceImage1',
                                    selectedColorPalette, prompt)
    /\ UNCHANGED facadeVars
    /\ UNCHANGED auxVars
    /\ UNCHANGED <<tourVars, fanVars, storeVars, saveVars, maskVars>>

\* ImageUpload's onRemove (the image and the prompt are cleared), or the
\* remove button over the mask canvas (the image only).  The effects that
\* follow find an image missing.
onRemove(slot, clearPrompt) ==
    /\ selectedTask # ""
    /\ IF slot = 1 THEN sourceImage1 # 0 ELSE sourceImage2 # 0
    /\ ~clearPrompt => (slot = 1 /\ selectedTask = "change_material")
    /\ sourceImage1' = IF slot = 1 THEN 0 ELSE sourceImage1
    /\ sourceImage2' = IF slot = 2 THEN 0 ELSE sourceImage2
    /\ prompt' = IF clearPrompt THEN EmptyPrompt ELSE prompt
    /\ analysisLast' = AnalysisLast("remove", selectedTask, prompt', isAnalyzing)
    /\ UNCHANGED <<nextUpload, isAnalyzing, analysisPending, described,
                   facadeVars>>
    /\ UNCHANGED auxVars
    /\ UNCHANGED <<tourVars, fanVars, storeVars, saveVars, maskVars>>

\* The prompt textarea's onChange.
setPrompt(text) ==
    /\ selectedTask # ""
    /\ text # prompt
    /\ prompt' = text
    /\ analysisLast' = AnalysisLast("type", selectedTask, text, isAnalyzing)
    /\ UNCHANGED <<sourceImage1, sourceImage2, nextUpload, isAnalyzing,
                   analysisPending, described, facadeVars>>
    /\ UNCHANGED auxVars
    /\ UNCHANGED <<tourVars, fanVars, storeVars, saveVars, maskVars>>

\* The rest of an effect's `run` once its describe request settles: the
\* description (possibly empty) becomes the prompt, a failure is logged, and
\* isAnalyzing is cleared; the updates of an unmounted runner are dropped.
Description(outcome) == IF outcome = "" THEN EmptyPrompt ELSE <<outcome>>

\* s without its i-th element
RemoveAt(s, i) == SubSeq(s, 1, i - 1) \o SubSeq(s, i + 1, Len(s))

\* setPrompt(p) after the await: whether the description is staged, given
\* the image the request analysed and the current source image.
stages(outcome, live, analysed, image1) == live /\ outcome # "failed"

\* i is the position of the settling request among those of the mounted
\* runner.
analysisSettleMutant(outcome, live, i) ==
    /\ IF live THEN i \in 1..Len(analysisPending.live)
       ELSE i = 1 /\ analysisPending.orphaned > 0
    /\ analysisPending' = IF live
                          THEN [analysisPending EXCEPT !.live = RemoveAt(@, i)]
                          ELSE [analysisPending EXCEPT !.orphaned = @ - 1]
    /\ LET analysed == IF live THEN analysisPending.live[i] ELSE 0
           staged == stages(outcome, live, analysed, sourceImage1)
       IN  /\ prompt' = IF staged THEN Description(outcome) ELSE prompt
           /\ isAnalyzing' = IF live /\ outcome # "failed" THEN FALSE
                             ELSE isAnalyzing
           /\ analysisLast' =
                  [AnalysisLast("settled", selectedTask, prompt', isAnalyzing')
                      EXCEPT !.analysed = analysed, !.staged = staged]
    /\ UNCHANGED <<sourceImage1, sourceImage2, nextUpload, described,
                   facadeVars>>
    /\ UNCHANGED auxVars
    /\ UNCHANGED <<tourVars, fanVars, storeVars, saveVars, maskVars>>
analysisSettle(outcome, live, i) ==
    /\ IF live THEN i \in 1..Len(analysisPending.live)
       ELSE i = 1 /\ analysisPending.orphaned > 0
    /\ analysisPending' = IF live
                          THEN [analysisPending EXCEPT !.live = RemoveAt(@, i)]
                          ELSE [analysisPending EXCEPT !.orphaned = @ - 1]
    /\ LET analysed == IF live THEN analysisPending.live[i] ELSE 0
           staged == stages(outcome, live, analysed, sourceImage1)
       IN  /\ prompt' = IF staged THEN Description(outcome) ELSE prompt
           /\ isAnalyzing' = IF live THEN FALSE ELSE isAnalyzing
           /\ analysisLast' =
                  [AnalysisLast("settled", selectedTask, prompt', isAnalyzing')
                      EXCEPT !.analysed = analysed, !.staged = staged]
    /\ UNCHANGED <<sourceImage1, sourceImage2, nextUpload, described,
                   facadeVars>>
    /\ UNCHANGED auxVars
    /\ UNCHANGED <<tourVars, fanVars, storeVars, saveVars, maskVars>>

AnalyzeOpen == \E t \in AllTasks : setSelectedTask(t)
Upload == \E slot \in 1..2 : onImageUpload(slot)
Remove == \E slot \in 1..2, clearPrompt \in BOOLEAN : onRemove(slot, clearPrompt)
TypePrompt == \E text \in {EmptyPrompt, <<"typed">>} : setPrompt(text)
Described == \E live \in BOOLEAN, i \in 1..MaxAnalyses :
                 analysisSettle("described", live, i)
DescribedEmpty == \E live \in BOOLEAN, i \in 1..MaxAnalyses :
                      analysisSettle("", live, i)
DescribeFails == \E live \in BOOLEAN, i \in 1..MaxAnalyses :
                     analysisSettle("failed", live, i)

AnalyzeNext ==
    \/ ViewLoad
    \/ AnalyzeOpen
    \/ onBack
    \/ Upload
    \/ Remove
    \/ TypePrompt
    \/ Described
    \/ DescribedEmpty
    \/ DescribeFails

\* ---------------------------------------------- facade from land: the steps
\* The facade controls are rendered for facade_from_land only.
facadeTask == selectedTask = "facade_from_land"
\* What the facade setters leave alone.
facadeFrame ==
    /\ UNCHANGED <<sourceImage1, sourceImage2, nextUpload, isAnalyzing,
                   analysisPending, described>>
    /\ UNCHANGED auxVars
    /\ UNCHANGED <<tourVars, fanVars, storeVars, saveVars, maskVars>>

\* The floors select's onChange, and the facade prompt effect after it.
setFloors(value) ==
    /\ facadeTask /\ value # floors
    /\ floors' = value
    /\ prompt' = facadePromptEffect(selectedMaterial, sourceImage1,
                                    selectedColorPalette, prompt)
    /\ analysisLast' = AnalysisLast("floors", selectedTask, prompt', isAnalyzing)
    /\ UNCHANGED <<selectedHouseType, selectedFacadeStyle, selectedColorPalette,
                   materialOptions, selectedMaterial,
                   isAnalyzingMaterialsSuggestions, materialsPending>>
    /\ facadeFrame

\* The house-type select's onChange: its effect resets the style, whose
\* effect resets the palette; the facade prompt effect runs last.
setSelectedHouseType(value) ==
    /\ facadeTask /\ value # selectedHouseType
    /\ selectedHouseType' = value
    /\ selectedFacadeStyle' = ""
    /\ selectedColorPalette' = NoPalette
    /\ prompt' = facadePromptEffect(selectedMaterial, sourceImage1, NoPalette,
                                    prompt)
    /\ analysisLast' = AnalysisLast("house_type", selectedTask, prompt',
                                   isAnalyzing)
    /\ UNCHANGED <<floors, materialOptions, selectedMaterial,
                   isAnalyzingMaterialsSuggestions, materialsPending>>
    /\ facadeFrame

\* The style select's onChange (disabled without a house type): its effect
\* resets the palette.
setSelectedFacadeStyle(value) ==
    /\ facadeTask /\ selectedHouseType # "" /\ value # selectedFacadeStyle
    /\ selectedFacadeStyle' = value
    /\ selectedColorPalette' = NoPalette
    /\ prompt' = facadePromptEffect(selectedMaterial, sourceImage1, NoPalette,
                                    prompt)
    /\ analysisLast' = AnalysisLast("style", selectedTask, prompt', isAnalyzing)
    /\ UNCHANGED <<floors, selectedHouseType, materialOptions, selectedMaterial,
                   isAnalyzingMaterialsSuggestions, materialsPending>>
    /\ facadeFrame

\* The palette select's onChange; the select is rendered once the style has
\* palettes.
setSelectedColorPalette(value) ==
    /\ facadeTask /\ selectedFacadeStyle # "" /\ value # selectedColorPalette
    /\ selectedColorPalette' = value
    /\ prompt' = facadePromptEffect(selectedMaterial, sourceImage1, value, prompt)
    /\ analysisLast' = AnalysisLast("palette", selectedTask, prompt', isAnalyzing)
    /\ UNCHANGED <<floors, selectedHouseType, selectedFacadeStyle,
                   materialOptions, selectedMaterial,
                   isAnalyzingMaterialsSuggestions, materialsPending>>
    /\ facadeFrame

\* The analysis button and the option list are rendered once an image, the
\* floors, the house type and the style are all set.
facadeReady ==
    facadeTask /\ sourceImage1 # 0 /\ floors # "" /\ selectedHouseType # ""
        /\ selectedFacadeStyle # ""

\* handleAnalyzeMaterials up to the await.
handleAnalyzeMaterialsStart ==
    /\ facadeReady /\ ~isAnalyzingMaterialsSuggestions
    /\ materialsPending.live + materialsPending.orphaned < MaxMaterials
    /\ isAnalyzingMaterialsSuggestions' = TRUE
    /\ materialsPending' = [materialsPending EXCEPT !.live = @ + 1]
    /\ analysisLast' = AnalysisLast("materials_start", selectedTask, prompt,
                                   isAnalyzing)
    /\ UNCHANGED <<floors, selectedHouseType, selectedFacadeStyle,
                   selectedColorPalette, materialOptions, selectedMaterial,
                   prompt>>
    /\ facadeFrame

\* handleAnalyzeMaterials after the await: the options replace the old ones,
\* the selection and the prompt are cleared; a rejection is only logged.
\* The updates of an unmounted runner are dropped.
handleAnalyzeMaterialsSettle(rejected, text, live) ==
    /\ IF live THEN materialsPending.live > 0 ELSE materialsPending.orphaned > 0
    /\ materialsPending' = IF live THEN [materialsPending EXCEPT !.live = @ - 1]
                           ELSE [materialsPending EXCEPT !.orphaned = @ - 1]
    /\ IF live /\ ~rejected
       THEN /\ materialOptions' = parseMaterialOptions(text)
            /\ selectedMaterial' = NoMaterial
            /\ prompt' = EmptyPrompt
       ELSE UNCHANGED <<materialOptions, selectedMaterial, prompt>>
    /\ isAnalyzingMaterialsSuggestions' =
          IF live THEN FALSE ELSE isAnalyzingMaterialsSuggestions
    /\ analysisLast' = AnalysisLast("materials_settled", selectedTask, prompt',
                                   isAnalyzing)
    /\ UNCHANGED <<floors, selectedHouseType, selectedFacadeStyle,
                   selectedColorPalette>>
    /\ facadeFrame

\* A click on the i-th option shown, and the facade prompt effect after it.
setSelectedMaterial(i) ==
    /\ facadeReady
    /\ materialOptions.kind = "array" /\ i \in 1..Len(materialOptions.items)
    /\ materialOptions.items[i] # selectedMaterial
    /\ selectedMaterial' = materialOptions.items[i]
    /\ prompt' = facadePromptEffect(selectedMaterial', sourceImage1,
                                    selectedColorPalette, prompt)
    /\ analysisLast' = AnalysisLast("select_material", selectedTask, prompt',
                                   isAnalyzing)
    /\ UNCHANGED <<floors, selectedHouseType, selectedFacadeStyle,
                   selectedColorPalette, materialOptions,
                   isAnalyzingMaterialsSuggestions, materialsPending>>
    /\ facadeFrame

\* The responses the facade steps are run on: none, text that is no JSON, the
\* three tiers in full, and tiers whose keywords or gate design are empty.
FacadeTexts ==
    {NoText,
     [present |-> TRUE, fenced |-> FALSE, body |-> [kind |-> "garbage", items |-> <<>>]],
     [present |-> TRUE, fenced |-> TRUE,
      body |-> JsonArray(<<MaterialOption("cheap", FALSE, TRUE),
                           MaterialOption("medium", TRUE, FALSE),
                           MaterialOption("premium", TRUE, TRUE)>>)]}

FacadeOpen == setSelectedTask("facade_from_land")
FacadeUpload == onImageUpload(1)
FacadeRemove == onRemove(1, TRUE)
SetFloors == \E value \in {"", "3"} : setFloors(value)
SetHouseType == \E value \in {"", "townhouse"} : setSelectedHouseType(value)
SetStyle == \E value \in {"", "modern"} : setSelectedFacadeStyle(value)
SetPalette == \E value \in {NoPalette, "palette"} : setSelectedColorPalette(value)
AnalyzeFacadeMaterials == handleAnalyzeMaterialsStart
FacadeMaterialsAnalyzed ==
    \E text \in FacadeTexts, live \in BOOLEAN :
        handleAnalyzeMaterialsSettle(FALSE, text, live)
FacadeMaterialsFail ==
    \E live \in BOOLEAN : handleAnalyzeMaterialsSettle(TRUE, NoText, live)
SelectMaterial == \E i \in 1..MaxOptions : setSelectedMaterial(i)

FacadeNext ==
    \/ ViewLoad
    \/ FacadeOpen
    \/ onBack
    \/ FacadeUpload
    \/ FacadeRemove
    \/ TypePrompt
    \/ SetFloors
    \/ SetHouseType
    \/ SetStyle
    \/ SetPalette
    \/ AnalyzeFacadeMaterials
    \/ FacadeMaterialsAnalyzed
    \/ FacadeMaterialsFail
    \/ SelectMaterial

\* ---------------------------------------------------------- API credential
\* A credential is a positive number; getApiKey's null is NoCredential.
NoCredential == 0
Credentials == 1..MaxKeys
\* The key written into src/unnamed/part_000's getApiKey.
Hardcoded == MaxKeys + 1
\* The two service modules of the repository.
Services == {"geminiService.ts", "part_000"}
NotBuilt == [service |-> "", env |-> NoCredential]

\* getApiKey: geminiService.ts returns the stored key if truthy, else
\* process.env.API_KEY || null; part_000 returns its literal.
getApiKey(service, stored, env) ==
    IF service = "part_000" THEN Hardcoded
    ELSE IF stored # NoCredential THEN stored
    ELSE env

\* getGenAI: throws Error("API_KEY_MISSING") without a key, else builds the
\* client every request of the operation goes through.
getGenAI(service, stored, env) ==
    LET apiKey == getApiKey(service, stored, env)
    IN  IF apiKey = NoCredential
        THEN [thrown |-> TRUE, message |-> Message({"API_KEY_MISSING", "API_KEY"}),
              apiKey |-> NoCredential]
        ELSE [thrown |-> FALSE, message |-> NoMessage, apiKey |-> apiKey]

\* The exported operations that start with getGenAI().
Operations == {"analyzeUtilityTask", "analyzeMaterialReplacement",
               "analyze3Dto2DConversion", "describeInteriorImage",
               "generateImages", "upscaleImage", "editImage"}
\* Those App calls inside a try whose catch is handleHandleError.
AppOperations == {"generateImages", "upscaleImage"}

KeyLast(op, client, sent) ==
    [op |-> op, thrown |-> client.thrown, apiKey |-> client.apiKey,
     sent |-> sent]
NoClient == [thrown |-> FALSE, message |-> NoMessage, apiKey |-> NoCredential]
\* The key validateApiKey was given, outside any operation.
Typed(apiKey) == [NoClient EXCEPT !.apiKey = apiKey]

KeyInit ==
    /\ build = NotBuilt
    /\ storedKey = NoCredential
    /\ keyLast = KeyLast("init", NoClient, 0)

\* The bundle is made from one of the service modules, with
\* process.env.API_KEY defined or not.
bundle(service, env) ==
    /\ build = NotBuilt
    /\ build' = [service |-> service, env |-> env]
    /\ keyLast' = KeyLast("bundle", NoClient, 0)
    /\ UNCHANGED <<storedKey, uploadLast, materialLast, cleared, strokeVars>>
    /\ UNCHANGED <<tourVars, fanVars, storeVars, saveVars, maskVars, analyzeVars>>

\* An exported operation up to its first request: getGenAI() comes first, so
\* a missing key throws before anything is sent.  In App the error reaches
\* handleHandleError.
apiOperation(op) ==
    /\ mounted /\ build # NotBuilt
    /\ LET client == getGenAI(build.service, storedKey, build.env)
       IN  /\ keyLast' = KeyLast(op, client, IF client.thrown THEN 0 ELSE 1)
           /\ isApiKeyModalOpen' =
                 IF client.thrown /\ op \in AppOperations
                 THEN handleHandleError(RejectedWith(client.message),
                                        isApiKeyModalOpen).isApiKeyModalOpen
                 ELSE isApiKeyModalOpen
    /\ UNCHANGED <<build, storedKey, uploadLast, materialLast, cleared,
                   strokeVars>>
    /\ UNCHANGED <<mounted, localStorage, nextId, appHistory, generatedImages,
                   isLoading, appPending, appUpscale, utilVars, storeLast>>
    /\ UNCHANGED <<tourVars, fanVars, saveVars, maskVars, analyzeVars>>

\* ApiKeyModal.handleSave with the typed key (0 for blank): a blank key is
\* refused, a key that validateApiKey accepts is stored and onSuccess closes
\* the modal, a key it rejects is reported.
handleSave(apiKey, isValid) ==
    /\ isApiKeyModalOpen
    /\ IF apiKey # NoCredential /\ isValid
       THEN /\ storedKey' = apiKey
            /\ isApiKeyModalOpen' = FALSE
            /\ keyLast' = KeyLast("key_saved", Typed(apiKey), 1)
       ELSE /\ keyLast' = KeyLast("key_refused", Typed(apiKey),
                                  IF apiKey = NoCredential THEN 0 ELSE 1)
            /\ UNCHANGED <<storedKey, isApiKeyModalOpen>>
    /\ UNCHANGED <<build, uploadLast, materialLast, cleared, strokeVars>>
    /\ UNCHANGED <<mounted, localStorage, nextId, appHistory, generatedImages,
                   isLoading, appPending, appUpscale, utilVars, storeLast>>
    /\ UNCHANGED <<tourVars, fanVars, saveVars, maskVars, analyzeVars>>

Bundle == \E service \in Services, env \in {NoCredential} \cup Credentials :
              bundle(service, env)
ApiOperation == \E op \in Operations : apiOperation(op)
HandleSave == \E apiKey \in {NoCredential} \cup Credentials, isValid \in BOOLEAN :
                  handleSave(apiKey, isValid)

KeyNext ==
    \/ ViewLoad
    \/ Bundle
    \/ ApiOperation
    \/ HandleSave

\* ------------------------------------------------------ upload entry points
\* The files a user can pick or drop: a type, and a payload that is empty (0)
\* for an empty file.
JPEG == Mime("image", "jpeg")
PDF == Mime("application", "pdf")
UploadTypes == FileTypes \cup {JPEG, PDF}
Files == [type : UploadTypes, base64 : {0} \cup Data]

\* The components with a file input, and the ways a file reaches them; the
\* virtual tour has no drop zone.
Views == {"render", "reference", "editor", "utility", "tour"}
Vias(view) == IF view = "tour" THEN {"picker"} ELSE {"picker", "drop"}

Received(image, alert) == [image |-> image, alert |-> alert]

\* App's ImageUpload and reference upload, and ImageEditor: processFile.
processFile(file) ==
    IF StartsWithImage(file.type)
    THEN IF file.base64 # 0 THEN Received(SourceImage(file.type, file.base64), FALSE)
         ELSE Received(NULL, FALSE)
    ELSE Received(NULL, TRUE)

\* UtilityRunner's ImageUpload: the reader's onload calls onImageUpload with
\* whatever file was given.
utilityUpload(file) == Received(SourceImage(file.type, file.base64), FALSE)

\* VirtualTourTab's input: as processFile, without the alert.
tourUpload(file) ==
    IF StartsWithImage(file.type) /\ file.base64 # 0
    THEN Received(SourceImage(file.type, file.base64), FALSE)
    ELSE Received(NULL, FALSE)

receive(view, file) ==
    IF view = "utility" THEN utilityUpload(file)
    ELSE IF view = "tour" THEN tourUpload(file)
    ELSE processFile(file)

UploadLast(view, via, file, upload) ==
    [view |-> view, via |-> via, file |-> file, image |-> upload.image,
     alert |-> upload.alert]

UploadInit == uploadLast = UploadLast("", "", [type |-> PNG, base64 |-> 0],
                                      Received(NULL, FALSE))

\* A file is picked in, or dropped on, an entry point.
giveFile(view, via, file) ==
    /\ uploadLast' = UploadLast(view, via, file, receive(view, file))
    /\ UNCHANGED <<keyVars, materialLast, cleared, strokeVars>>
    /\ UNCHANGED <<tourVars, fanVars, storeVars, saveVars, maskVars, analyzeVars>>

GiveFile == \E view \in Views : \E via \in Vias(view), file \in Files :
                giveFile(view, via, file)

UploadNext == GiveFile

\* ---------------------------------------------- material analysis: the call
MaterialLast(op, text, options) == [op |-> op, text |-> text, options |-> options]
MaterialInit == materialLast = MaterialLast("init", NoText, JsonArray(<<>>))

\* analyzeMaterialsForFacade once the model has answered.
analyzeMaterialsForFacade(text) ==
    /\ materialLast' = MaterialLast("analyzed", text, parseMaterialOptions(text))
    /\ UNCHANGED <<keyVars, uploadLast, cleared, strokeVars>>
    /\ UNCHANGED <<tourVars, fanVars, storeVars, saveVars, maskVars, analyzeVars>>

AnalyzeMaterials == \E text \in Texts : analyzeMaterialsForFacade(text)

MaterialNext == AnalyzeMaterials

StrokeInit == isDrawing = FALSE /\ drawingHistory = <<>>
AuxInit == KeyInit /\ UploadInit /\ MaterialInit /\ cleared = {} /\ StrokeInit

Init ==
    /\ TourInit /\ FanInit /\ StoreInit /\ SaveIdle /\ MaskInit /\ AnalyzeInit
    /\ AuxInit
InitSave ==
    /\ TourInit /\ FanInit
    /\ mounted = FALSE /\ nextId = 1 /\ AppInit /\ UtilInit
    /\ storeLast = StoreLast("init", NoKey, NoSave)
    /\ SaveInputs
    /\ MaskInit
    /\ AnalyzeInit
    /\ AuxInit

\* ------------------------------------------------------------- busy flags
\* The tabs share no busy flag, so each behaviour follows one of them: a tab
\* is entered while the others are as they were at load.
TourUntouched == tourLast.op = "init"
AppUntouched ==
    /\ ~appPending.active /\ ~appUpscale.active /\ ~isApiKeyModalOpen
    /\ generatedImages = EmptyView
    /\ \A k \in AppKeys \ {EditKey} : appHistory[k] = <<>>
UtilUntouched == analysisLast.op = "init"
EditorUntouched == editorLast.op = "init"

BusyTourUpload ==
    /\ AppUntouched /\ UtilUntouched /\ EditorUntouched
    /\ handleImageUpload(PNG, 1)
BusyGenerate ==
    /\ TourUntouched /\ UtilUntouched /\ EditorUntouched
    /\ ViewGenerate
\* Likewise the two runners: sketch_to_render for describing, generating and
\* upscaling, facade_from_land for the material analysis.
BusyOpenSketch ==
    /\ TourUntouched /\ AppUntouched /\ EditorUntouched
    /\ materialsPending = [live |-> 0, orphaned |-> 0]
    /\ setSelectedTask("sketch_to_render")
BusyOpenFacade ==
    /\ TourUntouched /\ AppUntouched /\ EditorUntouched
    /\ analysisPending = [live |-> <<>>, orphaned |-> 0]
    /\ utilPending = {} /\ nextUpload = 1
    /\ \A t \in AllTasks : ~localStorage[UtilKey(t)].present
    /\ setSelectedTask("facade_from_land")
\* An image is put into the empty upload box.
BusyUpload == sourceImage1 = 0 /\ onImageUpload(1)
BusyUtilGenerate == selectedTask = "sketch_to_render" /\ ViewUtilGenerate
BusyUtilUpscale == selectedTask = "sketch_to_render" /\ UtilUpscale
BusySetFloors == setFloors("3")
BusySetHouseType == setSelectedHouseType("townhouse")
BusySetStyle == setSelectedFacadeStyle("modern")
BusyOpenEditor ==
    /\ TourUntouched /\ AppUntouched /\ UtilUntouched
    /\ openEditor
BusyGeneratedEmpty == handleGenerationSettle(Resolved(<<>>), ViewEnv)
BusyUtilGenerationFails ==
    \E p \in utilPending, r \in {Resolved(<<>>), Rejected} :
        handleGenerateSettle(p, r, ViewEnv)

\* The settlements of each kind of call.
TourSettles == TourActionOk \/ TourActionEmpty \/ TourActionError
GenerationSettles == ViewGenerated \/ ViewGenerationFails \/ BusyGeneratedEmpty
UpscaleSettles == AppUpscaled \/ AppUpscaleFails
UtilGenerationSettles == ViewUtilGenerated \/ BusyUtilGenerationFails
UtilUpscaleSettles == UtilUpscaled \/ UtilUpscaleFails
EditSettles == EditorEdited \/ EditorEditedEmpty \/ EditorEditFails
DescribeSettles == Described \/ DescribedEmpty \/ DescribeFails
MaterialsSettle == FacadeMaterialsAnalyzed \/ FacadeMaterialsFail

BusyNext ==
    \/ ViewLoad
    \/ BusyTourUpload
    \/ handleActionStart
    \/ TourActionOk
    \/ TourActionEmpty
    \/ TourActionError
    \/ BusyGenerate
    \/ ViewGenerated
    \/ ViewGenerationFails
    \/ BusyGeneratedEmpty
    \/ AppUpscale
    \/ AppUpscaled
    \/ AppUpscaleFails
    \/ BusyOpenSketch
    \/ BusyOpenFacade
    \/ onBack
    \/ BusyUtilGenerate
    \/ ViewUtilGenerated
    \/ BusyUtilGenerationFails
    \/ BusyUtilUpscale
    \/ UtilUpscaled
    \/ UtilUpscaleFails
    \/ BusyUpload
    \/ Described
    \/ DescribedEmpty
    \/ DescribeFails
    \/ BusySetFloors
    \/ BusySetHouseType
    \/ BusySetStyle
    \/ AnalyzeFacadeMaterials
    \/ FacadeMaterialsAnalyzed
    \/ FacadeMaterialsFail
    \/ BusyOpenEditor
    \/ leaveEditor
    \/ EditorGenerate
    \/ EditorEdited
    \/ EditorEditedEmpty
    \/ EditorEditFails

\* Every call that was issued settles.
BusyFairness ==
    /\ WF_vars(TourSettles)
    /\ WF_vars(GenerationSettles)
    /\ WF_vars(UpscaleSettles)
    /\ WF_vars(UtilGenerationSettles)
    /\ WF_vars(UtilUpscaleSettles)
    /\ WF_vars(EditSettles)
    /\ WF_vars(DescribeSettles)
    /\ WF_vars(MaterialsSettle)

SpecTour == Init /\ [][TourNext]_vars
SpecStroke == Init /\ [][StrokeNext]_vars
SpecBusy == Init /\ [][BusyNext]_vars /\ BusyFairness
SpecFan == Init /\ [][FanNext]_vars
SpecStore == Init /\ [][StoreNext]_vars
SpecView == Init /\ [][ViewNext]_vars
SpecMask == Init /\ [][MaskNext]_vars
SpecAnalyze == Init /\ [][AnalyzeNext]_vars
SpecKey == Init /\ [][KeyNext]_vars
SpecUpload == Init /\ [][UploadNext]_vars
SpecMaterial == Init /\ [][MaterialNext]_vars
SpecFacade == Init /\ [][FacadeNext]_vars
SpecError == Init /\ [][ErrorNext]_vars
SpecSave == InitSave /\ [][SaveNext]_vars

\* ------------------------------------------------------------------ claims

\* C1: when a camera action succeeds with the pointer at P in a history of
\* length L (0 <= P < L), the new history is the first P+1 old entries
\* followed by the new image, and the pointer is at the new last entry.
C1_ActionTruncatesRedoTail ==
    tourLast.op = "action_ok" =>
        LET P == tourLast.historyIndex
            old == tourLast.history
        IN /\ 0 <= P /\ P < Len(old)
           /\ Len(history) = P + 2
           /\ \A k \in 1..(P + 1) : history[k] = old[k]
           /\ historyIndex = Len(history) - 1

\* A successful action taken after an undo: a redo tail existed and is gone.
C1_Witness ==
    /\ tourLast.op = "action_ok"
    /\ tourLast.historyIndex < Len(tourLast.history) - 1
    /\ tourLast.historyIndex >= 1

\* C2: undo at pointer 0 and redo at the last entry change nothing;
\* otherwise they move the pointer by exactly one; the history sequence is
\* never changed by undo or redo.
C2_UndoRedoFrame ==
    /\ tourLast.op = "undo" =>
          /\ history = tourLast.history
          /\ historyIndex = IF tourLast.historyIndex = 0 THEN 0
                            ELSE tourLast.historyIndex - 1
    /\ tourLast.op = "redo" =>
          /\ history = tourLast.history
          /\ historyIndex = IF tourLast.historyIndex = Len(tourLast.history) - 1
                            THEN tourLast.historyIndex
                            ELSE tourLast.historyIndex + 1

\* An undo was attempted at pointer 0 of a history with several entries.
C2_Witness ==
    /\ tourLast.op = "undo"
    /\ tourLast.historyIndex = 0
    /\ Len(history) >= 2

\* The requests of the current call whose response carried an inline image.
ImageSlots == {i \in 1..Len(fanSlots) :
                  fanSlots[i].state = "fulfilled" /\ fanSlots[i].value # NULL}

\* The k-th smallest element of a set of indices.
KthIndex(S, k) == CHOOSE i \in S : Cardinality({j \in S : j <= i}) = k

\* C3: when all N requests resolve, the call returns exactly the non-absent
\* per-slot results in issue order; the returned length is the number of
\* requests whose response contained an inline image.
C3_ResultsInIssueOrder ==
    (/\ fanCall.fn \in {"generateImages", "editImage"}
     /\ \A i \in 1..Len(fanSlots) : fanSlots[i].state = "fulfilled")
    => /\ fanResult.state = "resolved"
       /\ Len(fanResult.images) = Cardinality(ImageSlots)
       /\ \A k \in 1..Len(fanResult.images) :
             fanResult.images[k] = fanSlots[KthIndex(ImageSlots, k)].value

\* N = 4, exactly one response without an image, three images returned, and
\* the images around the gap differ so that their order is observable.
C3_Witness ==
    /\ fanCall.count = 4
    /\ \A i \in 1..4 : fanSlots[i].state = "fulfilled"
    /\ fanSlots[2].value = NULL
    /\ Cardinality(ImageSlots) = 3
    /\ Len(fanResult.images) = 3
    /\ fanSlots[1].value # fanSlots[3].value

\* C4: one request's failure, raising an error included, does not affect the
\* others: once all N requests have settled the call has returned the images
\* of the requests that succeeded.
C4_NoAllOrNothing ==
    (/\ fanCall.fn \in {"generateImages", "editImage"}
     /\ \A i \in 1..Len(fanSlots) : fanSlots[i].state # "pending")
    => /\ fanResult.state = "resolved"
       /\ Len(fanResult.images) = Cardinality(ImageSlots)
       /\ \A k \in 1..Len(fanResult.images) :
             fanResult.images[k] = fanSlots[KthIndex(ImageSlots, k)].value

\* The log of the safeSaveToLocalStorage call made on its own.
Log == saveDone.result.log
IsPrefix(p, l) == Len(p) <= Len(l) /\ \A i \in 1..Len(p) : p[i] = l[i]

\* C5: on a quota failure the write is retried with strictly shorter lists
\* and stops after finitely many attempts, at the first write that succeeds
\* or when the list has become empty; no error of any kind reaches the
\* caller.
C5_QuotaRetryTerminates ==
    saveDone.done =>
        /\ ~saveDone.result.raised
        /\ Len(Log) >= 1 /\ Len(Log) <= Len(saveCall.data) + 1
        /\ Log[1].data = saveCall.data
        /\ \A i \in 1..(Len(Log) - 1) :
              /\ Log[i].outcome = "quota"
              /\ Len(Log[i + 1].data) < Len(Log[i].data)
              /\ Len(Log[i + 1].data) > 0
        /\ Log[Len(Log)].outcome = "quota" =>
              /\ saveDone.result.emptied
              /\ Len(Log[Len(Log)].data) <= saveDone.result.drop
        /\ Log[Len(Log)].outcome = "ok" =>
              localStorage[saveCall.key] = Stored(Log[Len(Log)].data)

\* Two quota failures, then a shorter list that fits.
C5_Witness ==
    /\ saveDone.done
    /\ Len(Log) = 3
    /\ Log[1].outcome = "quota" /\ Log[2].outcome = "quota"
    /\ Log[3].outcome = "ok"

\* C6: each quota retry drops entries from the tail only, two per retry for
\* multi-image lists and three for single-image lists, so what ends up
\* persisted is a prefix of the in-memory list.
C6_TailPruningKeepsPrefix ==
    (saveDone.done /\ \A i \in 1..Len(Log) : Log[i].outcome # "other") =>
        /\ \A i \in 1..(Len(Log) - 1) :
              Log[i + 1].data =
                  SubSeq(Log[i].data, 1,
                         Len(Log[i].data)
                           - (IF MultiImage(saveCall.key) THEN 2 ELSE 3))
        /\ localStorage[saveCall.key].present =>
              IsPrefix(localStorage[saveCall.key].list, saveCall.data)

\* C7: for every history key, when quota pruning reduces the list to empty
\* the key is deleted: it holds neither an empty list nor the value stored
\* before the failed write.
C7_EmptiedListRemovesKey ==
    (storeLast.op \in {"record", "record_unmounted", "clear", "mount"}
        /\ storeLast.emptied)
    => ~localStorage[storeLast.key].present

\* The in-memory list of a key's feature.
ListOf(key) == IF key \in AppKeys THEN appHistory[key] ELSE utilityHistory

\* C8: for every history list, after the user clears the history the
\* in-memory list is empty and the list's key is absent from localStorage.
C8_ClearEmptiesAndRemovesKey ==
    storeLast.op = "clear" =>
        /\ ListOf(storeLast.key) = <<>>
        /\ ~localStorage[storeLast.key].present

\* C9: recording a generation prepends the new item to the feature's list
\* (the new list is the new item followed by the prior list) and leaves
\* every other feature's list and persisted key unchanged.
C9_RecordPrepends ==
    [][\A key \in Keys :
        (storeLast'.op = "record" /\ storeLast'.key = key) =>
            /\ Len(ListOf(key)') = Len(ListOf(key)) + 1
            /\ ListOf(key)'[1].id = nextId
            /\ Tail(ListOf(key)') = ListOf(key)
            /\ \A k \in AppKeys \ {key} : appHistory'[k] = appHistory[k]
            /\ key \in AppKeys => utilityHistory' = utilityHistory
            /\ \A k \in Keys \ {key} : localStorage'[k] = localStorage[k]
      ]_vars

C11_MaskWhiteExactlyOnStrokes ==
    maskLast = "mask" =>
        \A p \in Pixels :
            maskImage[p] = IF strokeLayer[p].a > 0 THEN Opaque(White)
                           ELSE Opaque(Black)

\* C12: for an empty stroke layer the mask is uniformly black.
C12_EmptyLayerGivesBlackMask ==
    (maskLast = "mask" /\ \A p \in Pixels : strokeLayer[p].a = 0) =>
        \A p \in Pixels : maskImage[p] = Opaque(Black)

\* C13: every request issued by editImage carries its parts in the order
\* source image, mask image, reference image (present iff a reference was
\* supplied), instruction text; the instruction is the material-replacement
\* directive iff a reference image is present, otherwise the plain
\* edit-masked-area directive.
C13_EditRequestParts ==
    fanCall.fn = "editImage" =>
        /\ Len(fanRequests) = fanCall.count
        /\ \A i \in 1..Len(fanRequests) :
              LET parts == fanRequests[i]
                  n == Len(parts)
              IN  /\ n = IF fanCall.reference THEN 4 ELSE 3
                  /\ parts[1] = InlineOf("sourceImage")
                  /\ parts[2] = InlineOf("maskImage")
                  /\ fanCall.reference => parts[3] = InlineOf("referenceImage")
                  /\ \A k \in 1..(n - 1) : parts[k].kind = "inline"
                  /\ parts[n].kind = "text"
                  /\ parts[n].directive = IF fanCall.reference
                                           THEN "material_replacement"
                                           ELSE "edit_masked_area"

\* An edit with a reference image has issued several requests.
C13_Witness ==
    /\ fanCall.fn = "editImage"
    /\ fanCall.reference
    /\ Len(fanRequests) >= 2
    /\ Len(fanRequests[2]) = 4

\* C14: extraction yields an image only from a well-formed inline part (one
\* carrying both a media type and image bytes); for any other response the
\* slot is null, and no malformed image string is returned.
C14_ExtractionOnlyWellFormed ==
    \A i \in 1..Len(fanSlots) :
        fanSlots[i].state = "fulfilled" =>
            IF fanSlots[i].value = NULL THEN TRUE
            ELSE /\ fanSlots[i].value.mime # UNDEF
                 /\ fanSlots[i].value.data # NoData

\* C15: a generation batch that completes with no image is reported to the
\* user, and no retry is issued.
C15_EmptyResultReported ==
    /\ (storeLast.op = "generation_empty") =>
            /\ storeLast.report # "none"
            /\ \A p \in utilPending : ~p.live
    /\ (storeLast.op = "record" /\ ListOf(storeLast.key)[1].images = <<>>) =>
            /\ storeLast.report # "none"
            /\ ~appPending.active

\* C16: every item in every render or utility history list, in memory and
\* persisted, has a non-empty image list.
C16_ItemsHaveImages ==
    /\ \A k \in AppKeys : \A i \in 1..Len(appHistory[k]) :
            appHistory[k][i].images # <<>>
    /\ \A i \in 1..Len(utilityHistory) : utilityHistory[i].images # <<>>
    /\ \A k \in Keys : \A i \in 1..Len(localStorage[k].list) :
            localStorage[k].list[i].images # <<>>

\* C17: every successful edit in the image editor prepends one item to the
\* edit history, and the edit history is persisted under its key.
C17_EditRecorded ==
    [][(editorPending' # editorPending /\ editorLast'.op = "edit_ok")
         => /\ Len(appHistory'[EditKey]) = Len(appHistory[EditKey]) + 1
            /\ getItem(localStorage', EditKey).list = appHistory'[EditKey]]_vars

\* C18: an auto-describe request is issued at most once for an uploaded
\* image, and only in a render whose prompt is empty and that is not already
\* analysing; at most one such request is in flight at any time, and none is
\* issued for the tasks that build their prompt locally.
C18_DescribeOncePerUpload ==
    /\ \A u \in 1..MaxUploads : described[u] <= 1
    /\ analysisLast.op = "request"
          => /\ analysisLast.prompt = EmptyPrompt
             /\ ~analysisLast.isAnalyzing
             /\ analysisLast.task \notin LocalPromptTasks
    /\ Len(analysisPending.live) + analysisPending.orphaned <= 1

\* C19: in the utility runner and in the image editor at most one generation
\* batch is in flight at any time.
C19_OneBatchInFlight ==
    /\ Cardinality(utilPending) <= 1
    /\ editorPending.live + editorPending.orphaned <= 1

\* C20: every error raised by a render-tab generation or upscale leads to
\* exactly one outcome: an error whose message names a missing or invalid
\* credential or an entity that was not found opens the credential prompt
\* and shows no alert; any other error shows the generic alert with the
\* message appended and does not open the prompt; the request is not retried.
C20_ErrorOutcome ==
    [][(storeLast'.op \in {"render_error", "upscale_error"}) =>
          LET m == storeLast'.message
              credential == m.present /\ m.marks \cap Marks # {}
          IN  /\ credential => /\ isApiKeyModalOpen'
                                /\ storeLast'.report = "none"
              /\ ~credential =>
                    /\ storeLast'.report = IF m.present THEN "generic: message"
                                            ELSE "generic: unknown error"
                    /\ isApiKeyModalOpen' = isApiKeyModalOpen
              /\ storeLast'.op = "render_error" => ~appPending'.active
              /\ storeLast'.op = "upscale_error" => ~appUpscale'.active
      ]_vars

\* An upscale failed because the requested entity was not found, with the
\* prompt closed before, and the prompt is open.
C20_Witness ==
    /\ storeLast.op = "upscale_error"
    /\ storeLast.message = Message({"Requested entity was not found"})
    /\ isApiKeyModalOpen
    /\ storeLast.report = "none"

\* C21: an API operation uses the stored credential when there is one, else
\* the build-time default; with neither it throws API_KEY_MISSING and sends
\* nothing.
C21_CredentialPrecedence ==
    keyLast.op \in Operations
        => LET expected == IF storedKey # NoCredential THEN storedKey
                           ELSE build.env
           IN  IF expected = NoCredential
               THEN keyLast.thrown /\ keyLast.sent = 0
               ELSE ~keyLast.thrown /\ keyLast.apiKey = expected

\* C22: in the render tabs, the editor and the utility runner, a file whose
\* type is not an image type is answered with a message and gives no
\* SourceImage, whether picked or dropped.
C22_NonImageRejected ==
    (uploadLast.view \in {"render", "reference", "editor", "utility"}
        /\ ~StartsWithImage(uploadLast.file.type))
        => uploadLast.alert /\ uploadLast.image = NULL

\* C23: whatever text the model returns, the material analysis yields an
\* array of exactly three options, one for each of cheap, medium, premium.
C23_ThreeTiers ==
    materialLast.op = "analyzed"
        => /\ materialLast.options.kind = "array"
           /\ Len(materialLast.options.items) = 3
           /\ {materialLast.options.items[i].id : i \in 1..3}
                 = {Tiers[i] : i \in 1..3}

\* C24 as stated: selecting a material tier with an image loaded stages the
\* facade clause, the colour clause iff a palette is selected, then the
\* materials, design-keywords, gate-design and preserve-surroundings clauses.
C24_AllClausesStaged ==
    analysisLast.op = "select_material"
        => prompt = <<"facade">>
                      \o (IF selectedColorPalette # NoPalette THEN <<"color">>
                          ELSE <<>>)
                      \o <<"materials", "designKeywords", "gateDesign",
                           "preserve">>

\* C24, amended: the design-keywords clause and the gate-design clause are
\* staged iff the selected tier has design keywords, respectively a gate
\* design; the order of the clauses is as stated.
C24_ClausesInOrder ==
    analysisLast.op = "select_material"
        => prompt = <<"facade">>
                      \o (IF selectedColorPalette # NoPalette THEN <<"color">>
                          ELSE <<>>)
                      \o <<"materials">>
                      \o (IF selectedMaterial.designKeywords
                          THEN <<"designKeywords">> ELSE <<>>)
                      \o (IF selectedMaterial.gateDesign
                          THEN <<"gateDesign">> ELSE <<>>)
                      \o <<"preserve">>
\* A tier with keywords and a gate design is selected under a palette.
C24_Witness ==
    /\ analysisLast.op = "select_material"
    /\ selectedColorPalette # NoPalette
    /\ selectedMaterial.designKeywords /\ selectedMaterial.gateDesign
    /\ Len(prompt) = 6

\* C25: before any upload the tour history is empty and the pointer is -1;
\* once an image is uploaded, whatever actions, undos and redos follow, the
\* history is non-empty, the pointer indexes it, and the displayed image is
\* the entry at the pointer.
C25_TourInvariant ==
    /\ tourSourceImage = NULL => history = <<>> /\ historyIndex = -1
    /\ tourSourceImage # NULL =>
          /\ Len(history) > 0
          /\ 0 <= historyIndex /\ historyIndex < Len(history)
          /\ currentImage # NULL
          /\ currentImage = history[historyIndex + 1]

\* A redo was attempted at the last entry of a history with several entries.
C25_Witness ==
    /\ tourSourceImage # NULL
    /\ tourLast.op = "redo"
    /\ tourLast.historyIndex = Len(tourLast.history) - 1
    /\ Len(history) >= 2

\* C26: a camera action that fails (rejected call or empty result) leaves
\* the history and the pointer as they were, alerts the user and clears the
\* loading flag.
C26_FailedActionFrame ==
    tourLast.op = "action_failed" =>
        /\ history = tourLast.history
        /\ historyIndex = tourLast.historyIndex
        /\ tourAlerts = "action-failed"
        /\ ~tourIsLoading

\* An action failed while the pointer stood before a redo tail.
C26_Witness ==
    /\ tourLast.op = "action_failed"
    /\ Len(history) >= 2
    /\ historyIndex < Len(history) - 1

\* C27: once the user has cleared a utility history, no item recorded before
\* the clear is in the in-memory history or under a persisted utility key at
\* any later time, also when a generation started before the clear completes
\* after it.
C27_ClearedStaysCleared ==
    /\ IdsOf(utilityHistory) \cap cleared = {}
    /\ \A t \in AllTasks :
          IdsOf(localStorage[UtilKey(t)].list) \cap cleared = {}

\* C28: when a describe request of the mounted runner completes, its text is
\* staged into the prompt only if the image it analysed is still the loaded
\* source image.
C28_DescriptionForCurrentImage ==
    (analysisLast.op = "settled" /\ analysisLast.staged)
        => analysisLast.analysed = sourceImage1

\* C29: every generation, edit, upscale or analysis that was started clears
\* its busy flag once its call has settled, whether the call succeeded,
\* returned no image or failed.
C29_BusyFlagsClear ==
    /\ tourIsLoading ~> ~tourIsLoading
    /\ isLoading ~> ~isLoading
    /\ appUpscale.active ~> ~appUpscale.active
    /\ utilIsLoading ~> ~utilIsLoading
    /\ utilUpscale.active ~> ~utilUpscale.active
    /\ editorIsLoading ~> ~editorIsLoading
    /\ isAnalyzing ~> ~isAnalyzing
    /\ isAnalyzingMaterialsSuggestions ~> ~isAnalyzingMaterialsSuggestions

\* A describe request of the mounted runner failed and the flag is clear.
C29_Witness ==
    /\ analysisLast.op = "settled"
    /\ analysisLast.analysed # 0
    /\ ~analysisLast.staged
    /\ ~isAnalyzing

\* C30: the editor's undo stack grows only when a stroke in progress is
\* completed, and then by exactly one snapshot; a pointer release or leave
\* with no stroke in progress adds nothing.
C30_OneSnapshotPerStroke ==
    [][Len(drawingHistory') > Len(drawingHistory)
         => /\ isDrawing
            /\ Len(drawingHistory') = Len(drawingHistory) + 1]_vars

====
